---- MODULE Spec2Model ----
(***************************************************************************)
(* Genetics and valuation core of the snake breeding game: the seeded      *)
(* pseudo-random generator (src/core/SeededRandom.js), the creature        *)
(* entity (src/core/Snake.js), the breeding and encounter handlers of      *)
(* Game (src/core/Game.js) and the world's snake spots (world/World.js).   *)
(*                                                                         *)
(* Numbers.  JavaScript numbers are IEEE doubles; every product the        *)
(* generator forms is an integer below 2^53 and therefore exact.  TLC's    *)
(* integers are 32 bits wide, so a product a*x is kept as a pair [q, r]    *)
(* with a*x = q*LcgM + r, and a real value as a pair [ip, fr] standing for *)
(* ip + fr/LcgM (0 <= fr < LcgM).  For the ranges used here (width below   *)
(* 2^20) the double computation floor(min + next()*(max+1-min)) has the    *)
(* exact floor: the fraction is a multiple of 1/LcgM > 2^-32, far above    *)
(* the rounding error of the double product.                               *)
(***************************************************************************)
EXTENDS Integers, Sequences, FiniteSets, TLC

VARIABLES
    rng,        \* rng[g]: generator object g, [seed, current]
    log,        \* log[g]: calls made on g since construction or its last reset()
    resets,     \* resets[g]: whether reset() was ever called on g
    last,       \* the last call made: generator, operation, state before/after, result
    inputList   \* the caller's array object handed to pick()/shuffle()

VARIABLES
    snakes,           \* the Snake objects alive, by id
    collection,       \* Game.state.collection: ids, in order
    discoveredMorphs, \* Game.state.discoveredMorphs
    breedingParents,  \* Game.breedingParents: [p1, p2], an id or NoSnake
    predictions,      \* the table shown by updateBreedingPreview
    breedRng,         \* the generator breed() draws from
    lastBreed,        \* the last call of breed(): arguments, state before, outcome
    nextId,           \* ids handed out by Snake.generateId
    now               \* Date.now()

VARIABLES
    worldRng,             \* World.random
    worldPhase,           \* how far World.init() has come
    snakeSpots,           \* World.snakeSpots
    currentEncounter,     \* Game.currentEncounter: <<>> is null, else <<snake>>
    currentEncounterData, \* Game.currentEncounterData: index in snakeSpots, 0 is unset
    generated,            \* what the generator returned for each triple it was given
    encounters            \* the number of calls of handleSnakeDiscovery

VARIABLES
    subject,   \* a Snake object made from saved data
    lastCall,  \* the last method called on it and its outcome
    morphData  \* the catalog handed to every Snake: comboMorphs, pricingRules

VARIABLES
    localStorage, \* the saved game: <<>> is no item, else <<the state saved>>
    money,        \* Game.state.money
    coins,        \* World.coins: value, collected, respawnAt (0 is null)
    coinCalls     \* the values onCoinCollected was called with in the last update()

rngVars == <<rng, log, resets, last, inputList>>
snakeVars == <<subject, lastCall, morphData>>
gameVars == <<snakes, collection, discoveredMorphs, breedingParents, predictions,
              breedRng, lastBreed, nextId, now>>
sessionVars == <<localStorage, money, coins, coinCalls>>
worldVars == <<worldRng, worldPhase, snakeSpots, currentEncounter,
               currentEncounterData, generated, encounters, sessionVars>>
vars == <<rng, log, resets, last, inputList, snakes, collection, discoveredMorphs,
          breedingParents, predictions, breedRng, lastBreed, nextId, now,
          worldRng, worldPhase, snakeSpots, currentEncounter,
          currentEncounterData, generated, encounters, subject, lastCall, morphData,
          localStorage, money, coins, coinCalls>>

----------------------------------------------------------------------------
(* Program constants *)

LcgA == 48271
LcgM == 2147483647
DEFAULT_SEED == 12345
WORLD_SEED == 42069
MaxEncounterSeed == 1000000

(* Bounds of the model *)
MaxCalls == 2

\* Seeds the program constructs generators with: the default, the world seed,
\* and encounter seeds int(0, 1000000).  1899818559 and 247665088 are the two
\* states whose successors are 1 and LcgM - 1, the smallest and largest
\* non-zero states, used as states reached in the middle of a stream.
Seeds == {0, 1, DEFAULT_SEED, WORLD_SEED, MaxEncounterSeed}
LowEdgeState == 1899818559
HighEdgeState == 247665088
EdgeStates == {LowEdgeState, HighEdgeState}

----------------------------------------------------------------------------
(* Exact arithmetic *)

\* [q, r] + [q, r] and [q, r] + x in base LcgM, for 0 <= r, x < LcgM
Twice(h) ==
    IF h.r >= LcgM - h.r
    THEN [q |-> 2 * h.q + 1, r |-> h.r - (LcgM - h.r)]
    ELSE [q |-> 2 * h.q, r |-> h.r + h.r]

Plus(d, x) ==
    IF d.r >= LcgM - x
    THEN [q |-> d.q + 1, r |-> d.r - (LcgM - x)]
    ELSE [q |-> d.q, r |-> d.r + x]

\* x * n as [q, r] with x*n = q*LcgM + r and 0 <= r < LcgM, for 0 <= x < LcgM, n >= 0
RECURSIVE Product(_, _)
Product(x, n) ==
    IF n = 0 THEN [q |-> 0, r |-> 0]
    ELSE IF n % 2 = 0 THEN Twice(Product(x, n \div 2))
    ELSE Plus(Twice(Product(x, n \div 2)), x)

\* (a * s) mod LcgM for 0 <= s < LcgM, without a product above 2^31
\* (Schrage's decomposition, exact when LcgM % a < LcgM \div a)
MulMod(a, s) ==
    LET t == a * (s % (LcgM \div a)) - (LcgM % a) * (s \div (LcgM \div a))
    IN  IF t < 0 THEN t + LcgM ELSE t

\* JavaScript (a * x) % m: the remainder takes the sign of the dividend
JsMulRem(a, x) ==
    IF x >= 0 THEN MulMod(a, x % LcgM) ELSE 0 - MulMod(a, (0 - x) % LcgM)

\* JavaScript c / m for an integer c, as the real ip + fr/LcgM
Quotient(c) == [ip |-> c \div LcgM, fr |-> c % LcgM]

\* Math.floor of a real
Floor(x) == x.ip

RoundUp(x) == IF x.fr >= LcgM - x.fr THEN x.ip + 1 ELSE x.ip

\* x < p/d for a real x in [0,1) and a fraction p/d with d > 0
LessThanFraction(x, p, d) == x.ip < 0 \/ (x.ip = 0 /\ Product(x.fr, d).q < p)

----------------------------------------------------------------------------
(* SeededRandom *)

\* constructor(seed = 12345)
SeededRandom(seed) == [seed |-> seed, current |-> seed]

ResetNoOp(g) == g

\* reset()
Reset(g) == [g EXCEPT !.current = g.seed]

\* setSeed(seed)
SetSeed(g, seed) == [seed |-> seed, current |-> seed]

NextOldMinstd(g) ==
    LET c == JsMulRem(16807, g.current)
    IN  [rng |-> [g EXCEPT !.current = c], val |-> Quotient(c), n |-> 1]

\* A generator whose states are one lower, so that they begin at 0
NextZeroBased(g) ==
    LET c == JsMulRem(LcgA, g.current) - 1
    IN  [rng |-> [g EXCEPT !.current = c], val |-> Quotient(c), n |-> 1]

\* next(): the call's result is [rng: the generator after, val: the value
\* returned, n: the number of next() calls made]
RngNext(g) ==
    LET c == JsMulRem(LcgA, g.current)
    IN  [rng |-> [g EXCEPT !.current = c], val |-> Quotient(c), n |-> 1]

RngFloatNoOffset(g, min, max) ==
    LET d == RngNext(g)
        p == Product(d.val.fr, max - min)
    IN  [rng |-> d.rng,
         val |-> [ip |-> d.val.ip * (max - min) + p.q, fr |-> p.r],
         n |-> d.n]

\* float(min, max) = min + next() * (max - min), for integers min <= max
RngFloat(g, min, max) ==
    LET d == RngNext(g)
        p == Product(d.val.fr, max - min)
    IN  [rng |-> d.rng,
         val |-> [ip |-> min + d.val.ip * (max - min) + p.q, fr |-> p.r],
         n |-> d.n]

RngIntRound(g, min, max) ==
    LET d == RngFloat(g, min, max + 1)
    IN  [rng |-> d.rng, val |-> RoundUp(d.val), n |-> d.n]

\* int(min, max) = Math.floor(this.float(min, max + 1))
RngInt(g, min, max) ==
    LET d == RngFloat(g, min, max + 1)
    IN  [rng |-> d.rng, val |-> Floor(d.val), n |-> d.n]

\* bool(probability) = next() < probability, for probability = p/d
RngBool(g, p, d) ==
    LET x == RngNext(g)
    IN  [rng |-> x.rng, val |-> LessThanFraction(x.val, p, d), n |-> x.n]

\* array[i] in JavaScript: undefined outside the array
Undefined == "undefined"
At(array, i) == IF i \in 1..Len(array) THEN array[i] ELSE Undefined

RngPickPastEnd(g, array) ==
    LET d == RngInt(g, 0, Len(array))
    IN  [rng |-> d.rng, val |-> At(array, d.val + 1), n |-> d.n]

\* pick(array) = array[this.int(0, array.length - 1)]  (index i is At(_, i+1))
RngPick(g, array) ==
    LET d == RngInt(g, 0, Len(array) - 1)
    IN  [rng |-> d.rng, val |-> At(array, d.val + 1), n |-> d.n]

\* [result[i], result[j]] = [result[j], result[i]]  (0-based i, j)
Swap(res, i, j) ==
    [k \in 1..Len(res) |->
        IF k = i + 1 THEN At(res, j + 1)
        ELSE IF k = j + 1 THEN At(res, i + 1)
        ELSE res[k]]

\* One pass of the loop of shuffle: { j = int(0, i); swap result[i], result[j] }
\* st = [rng, res: the copy being shuffled, n, swaps: the (i, j) drawn so far]
\* (the singleton sets only make TLC evaluate each step once)
SwapStep(st, i) ==
    CHOOSE s \in { [rng |-> d.rng, res |-> Swap(st.res, i, d.val), n |-> st.n + d.n,
                    swaps |-> Append(st.swaps, <<i, d.val>>)] :
                   d \in {RngInt(st.rng, 0, i)} } : TRUE

\* for (let i = result.length - 1; i > 0; i--)
RECURSIVE ShuffleLoop(_, _)
ShuffleLoop(st, i) ==
    IF i <= 0 THEN st
    ELSE CHOOSE r \in { ShuffleLoop(s, i - 1) : s \in {SwapStep(st, i)} } : TRUE

RngShuffleInPlace(g, array) ==
    LET st == ShuffleLoop([rng |-> g, res |-> array, n |-> 0, swaps |-> <<>>],
                          Len(array) - 1)
    IN  [rng |-> st.rng, val |-> st.res, arr |-> st.res, n |-> st.n, swaps |-> st.swaps]

\* shuffle(array): result = [...array]; val is the result, arr the caller's
\* array after the call
RngShuffle(g, array) ==
    LET st == ShuffleLoop([rng |-> g, res |-> array, n |-> 0, swaps |-> <<>>],
                          Len(array) - 1)
    IN  [rng |-> st.rng, val |-> st.res, arr |-> array, n |-> st.n, swaps |-> st.swaps]

----------------------------------------------------------------------------
(* The catalog (morphData): genes in catalog order, species *)

Genes ==
    << [id |-> "albino", name |-> "Albino", inheritance |-> "recessive",
        rarity |-> 1, superForm |-> "", species |-> {"western", "eastern"}],
       [id |-> "axanthic", name |-> "Axanthic", inheritance |-> "recessive",
        rarity |-> 2, superForm |-> "", species |-> {"western", "eastern"}],
       [id |-> "anaconda", name |-> "Anaconda", inheritance |-> "incompleteDominant",
        rarity |-> 2, superForm |-> "superconda", species |-> {"western", "eastern"}],
       [id |-> "arctic", name |-> "Arctic", inheritance |-> "incompleteDominant",
        rarity |-> 3, superForm |-> "superarctic", species |-> {"western", "eastern"}],
       [id |-> "lemon_ghost", name |-> "Lemon Ghost", inheritance |-> "dominant",
        rarity |-> 2, superForm |-> "", species |-> {"western"}],
       [id |-> "toffee", name |-> "Toffee", inheritance |-> "polygenic",
        rarity |-> 1, superForm |-> "", species |-> {}] >>

GeneIds == {Genes[k].id : k \in 1..Len(Genes)}

\* genes[geneId]; NoGene stands for undefined
NoGene == [id |-> "", name |-> "", inheritance |-> "", rarity |-> 0,
           superForm |-> "", species |-> {}]
GeneOf(geneId) ==
    IF geneId \in GeneIds
    THEN Genes[CHOOSE k \in 1..Len(Genes) : Genes[k].id = geneId]
    ELSE NoGene

Species ==
    [western |-> [commonName |-> "Western Hognose", basePrice |-> 100,
                  clutchSize |-> [min |-> 8, max |-> 25]],
     eastern |-> [commonName |-> "Eastern Hognose", basePrice |-> 150,
                  clutchSize |-> [min |-> 10, max |-> 30]]]

SpeciesIds == DOMAIN Species

\* The combo morphs of the catalog, in catalog order
Catalog ==
    << [id |-> "snow", name |-> "Snow", requires |-> {"albino", "axanthic"},
        basePrice |-> 400],
       [id |-> "yeti", name |-> "Yeti", requires |-> {"albino", "axanthic", "anaconda"},
        basePrice |-> 600],
       [id |-> "sunburst", name |-> "Sunburst", requires |-> {"sable", "albino"},
        basePrice |-> 800],
       [id |-> "subzero", name |-> "Subzero", requires |-> {"albino", "superarctic"},
        basePrice |-> 1200] >>

\* morphData.pricingRules.  A factor [p, q] is the number p/q; every q is a
\* power of two, so that the products of calculatePrice are exact in double
\* arithmetic.  A table has an entry for some keys only.
Rules ==
    [genderMultiplier |-> [female |-> <<5, 4>>],
     rarityMultipliers |-> [r \in 1..5 |-> <<2 + r, 2>>],
     hetGeneBonus |-> <<1, 8>>,
     provenBreederBonus |-> <<5, 4>>,
     speciesMultipliers |-> [eastern |-> <<3, 2>>]]

\* morphData.comboMorphs and morphData.pricingRules of the catalog in use
ComboMorphs == morphData.comboMorphs
PricingRules == morphData.pricingRules

\* A catalog whose first combo morph has a lower basePrice than a later one
\* that needs fewer and commoner traits
OtherCatalog ==
    << [id |-> "frost", name |-> "Frost", requires |-> {"albino", "arctic"},
        basePrice |-> 200],
       [id |-> "snow", name |-> "Snow", requires |-> {"albino", "axanthic"},
        basePrice |-> 4000] >>

\* Another rule table: no multiplier for the rarities above 2
OtherRules == [Rules EXCEPT !.rarityMultipliers = [r \in 1..2 |-> <<2 + r, 2>>]]

\* The wild-type markers
WildMarkers == {"+", "wild"}

----------------------------------------------------------------------------
(* Snake *)

NoSnake == 0

\* genotype: the entries of the object { geneId: [allele1, allele2] } in
\* insertion order, each [gene, alleles]
Keys(genotype) == [k \in 1..Len(genotype) |-> genotype[k].gene]

\* genotype[geneId]
Alleles(genotype, geneId) ==
    LET at == {k \in 1..Len(genotype) : genotype[k].gene = geneId}
    IN  IF at = {} THEN <<>> ELSE genotype[CHOOSE k \in at : TRUE].alleles

\* new Snake(config, morphData) with the fields breed() and the generator give
NewSnake(id, species, sex, genotype, origin, parentIds, birthDate) ==
    [id |-> id, species |-> species, sex |-> sex, genotype |-> genotype,
     origin |-> origin, parentIds |-> parentIds, birthDate |-> birthDate,
     stats |-> [health |-> 100, fertility |-> 1, clutchesProduced |-> 0],
     phenotype |-> [cached |-> FALSE, list |-> <<>>]]

\* A count that takes only '+' for the wild type
MutantCountPlusOnly(alleles) ==
    Cardinality({k \in 1..Len(alleles) : alleles[k] # "+"})

\* alleles.filter(a => a !== '+' && a !== 'wild').length
MutantCount(alleles) ==
    Cardinality({k \in 1..Len(alleles) : alleles[k] \notin WildMarkers})

\* A resolver that lists a recessive gene on one copy already
ExpressedOneCopy(entry) ==
    LET gene == GeneOf(entry.gene)
        alleles == entry.alleles
    IN  IF gene = NoGene THEN <<>>
        ELSE IF gene.inheritance = "recessive"
        THEN IF At(alleles, 1) = entry.gene \/ At(alleles, 2) = entry.gene
             THEN <<entry.gene>> ELSE <<>>
        ELSE IF gene.inheritance = "incompleteDominant"
        THEN IF MutantCount(alleles) = 1 THEN <<entry.gene>>
             ELSE IF MutantCount(alleles) = 2 /\ gene.superForm # ""
             THEN <<gene.superForm>> ELSE <<>>
        ELSE IF gene.inheritance \in {"dominant", "polygenic"}
        THEN IF MutantCount(alleles) > 0 THEN <<entry.gene>> ELSE <<>>
        ELSE <<>>

\* A resolver that lists a polygenic gene on two mutant alleles only
ExpressedPolygenicBoth(entry) ==
    LET gene == GeneOf(entry.gene)
        alleles == entry.alleles
    IN  IF gene = NoGene THEN <<>>
        ELSE IF gene.inheritance = "recessive"
        THEN IF At(alleles, 1) = entry.gene /\ At(alleles, 2) = entry.gene
             THEN <<entry.gene>> ELSE <<>>
        ELSE IF gene.inheritance = "incompleteDominant"
        THEN IF MutantCount(alleles) = 1 THEN <<entry.gene>>
             ELSE IF MutantCount(alleles) = 2 /\ gene.superForm # ""
             THEN <<gene.superForm>> ELSE <<>>
        ELSE IF gene.inheritance = "dominant"
        THEN IF MutantCount(alleles) > 0 THEN <<entry.gene>> ELSE <<>>
        ELSE IF gene.inheritance = "polygenic"
        THEN IF MutantCount(alleles) > 1 THEN <<entry.gene>> ELSE <<>>
        ELSE <<>>

\* A resolver that takes a key the catalog does not have for a dominant gene
ExpressedUnknownToo(entry) ==
    LET gene == GeneOf(entry.gene)
        alleles == entry.alleles
    IN  IF gene = NoGene
        THEN IF MutantCount(alleles) > 0 THEN <<entry.gene>> ELSE <<>>
        ELSE IF gene.inheritance = "recessive"
        THEN IF At(alleles, 1) = entry.gene /\ At(alleles, 2) = entry.gene
             THEN <<entry.gene>> ELSE <<>>
        ELSE IF gene.inheritance = "incompleteDominant"
        THEN IF MutantCount(alleles) = 1 THEN <<entry.gene>>
             ELSE IF MutantCount(alleles) = 2 /\ gene.superForm # ""
             THEN <<gene.superForm>> ELSE <<>>
        ELSE IF gene.inheritance \in {"dominant", "polygenic"}
        THEN IF MutantCount(alleles) > 0 THEN <<entry.gene>> ELSE <<>>
        ELSE <<>>

\* The traits one genotype entry expresses (the switch of getPhenotype)
Expressed(entry) ==
    LET gene == GeneOf(entry.gene)
        alleles == entry.alleles
    IN  IF gene = NoGene THEN <<>>
        ELSE IF gene.inheritance = "recessive"
        THEN IF At(alleles, 1) = entry.gene /\ At(alleles, 2) = entry.gene
             THEN <<entry.gene>> ELSE <<>>
        ELSE IF gene.inheritance = "incompleteDominant"
        THEN IF MutantCount(alleles) = 1 THEN <<entry.gene>>
             ELSE IF MutantCount(alleles) = 2 /\ gene.superForm # ""
             THEN <<gene.superForm>> ELSE <<>>
        ELSE IF gene.inheritance \in {"dominant", "polygenic"}
        THEN IF MutantCount(alleles) > 0 THEN <<entry.gene>> ELSE <<>>
        ELSE <<>>

\* for (const [geneId, alleles] of Object.entries(this.genotype))
RECURSIVE ExpressedFrom(_, _)
ExpressedFrom(genotype, k) ==
    IF k > Len(genotype) THEN <<>>
    ELSE Expressed(genotype[k]) \o ExpressedFrom(genotype, k + 1)

\* getPhenotype(): the list returned
GetPhenotype(snake) ==
    IF snake.phenotype.cached THEN snake.phenotype.list
    ELSE ExpressedFrom(snake.genotype, 1)

\* A memo that keeps the first trait only
MemoizedFirstOnly(snake) ==
    [snake EXCEPT !.phenotype =
        [cached |-> TRUE,
         list |-> IF GetPhenotype(snake) = <<>> THEN <<>>
                  ELSE <<Head(GetPhenotype(snake))>>]]

\* getPhenotype(): the snake afterwards (this._phenotype = expressed)
Memoized(snake) ==
    [snake EXCEPT !.phenotype = [cached |-> TRUE, list |-> GetPhenotype(snake)]]

\* getVisualGenes()
GetVisualGenes(snake) ==
    LET phenotype == GetPhenotype(snake)
    IN  [k \in 1..Len(phenotype) |->
            IF GeneOf(phenotype[k]) # NoGene THEN GeneOf(phenotype[k]).name
            ELSE phenotype[k]]

\* An entry whose value is null or undefined instead of an array carries the
\* field missing; reading alleles[0] or alleles.filter of it throws
Missing(entry) == "missing" \in DOMAIN entry

InheritanceModes == {"recessive", "incompleteDominant", "dominant", "polygenic"}

\* getPhenotype() throws a TypeError in the case of this entry's gene
Throws(entry) ==
    /\ Missing(entry)
    /\ GeneOf(entry.gene) # NoGene
    /\ GeneOf(entry.gene).inheritance \in InheritanceModes

\* getPhenotype() of the snake throws (nothing is cached then)
PhenotypeThrows(snake) ==
    /\ ~snake.phenotype.cached
    /\ \E k \in 1..Len(snake.genotype) : Throws(snake.genotype[k])

\* list.includes(x)
Includes(list, x) == \E k \in 1..Len(list) : list[k] = x

\* alleles.filter(a => a === geneId).length
Copies(entry) ==
    Cardinality({k \in 1..Len(entry.alleles) : entry.alleles[k] = entry.gene})

\* A carrier list that takes every recessive gene with a copy or more,
\* expressed or not
RECURSIVE HetsFromAnyCopies(_, _, _)
HetsFromAnyCopies(genotype, phenotype, k) ==
    IF k > Len(genotype) THEN <<>>
    ELSE (IF /\ GeneOf(genotype[k].gene) # NoGene
             /\ GeneOf(genotype[k].gene).inheritance = "recessive"
             /\ Copies(genotype[k]) >= 1
          THEN <<GeneOf(genotype[k].gene).name>> ELSE <<>>)
         \o HetsFromAnyCopies(genotype, phenotype, k + 1)

\* getHetGenes(): the loop over the genotype from entry k on
RECURSIVE HetsFrom(_, _, _)
HetsFrom(genotype, phenotype, k) ==
    IF k > Len(genotype) THEN <<>>
    ELSE (IF /\ GeneOf(genotype[k].gene) # NoGene
             /\ GeneOf(genotype[k].gene).inheritance = "recessive"
             /\ Copies(genotype[k]) = 1
             /\ ~Includes(phenotype, genotype[k].gene)
          THEN <<GeneOf(genotype[k].gene).name>> ELSE <<>>)
         \o HetsFrom(genotype, phenotype, k + 1)

\* getHetGenes()
GetHetGenes(snake) == HetsFrom(snake.genotype, GetPhenotype(snake), 1)

\* visuals.join(' ') from element k on
RECURSIVE Join(_, _)
Join(list, k) ==
    IF k > Len(list) THEN ""
    ELSE IF k = Len(list) THEN list[k]
    ELSE list[k] \o " " \o Join(list, k + 1)

\* combo.requires.every(req => phenotype.includes(req))
Satisfied(combo, phenotype) == \A req \in combo.requires : Includes(phenotype, req)

\* The combos the phenotype satisfies, by position in the catalog
Matching(phenotype) ==
    {k \in 1..Len(ComboMorphs) : Satisfied(ComboMorphs[k], phenotype)}

\* The first of a non-empty set of positions
First(S) == CHOOSE k \in S : \A j \in S : k <= j

\* A display name that never looks at the combo morphs
GetDisplayNameJoined(snake) ==
    IF Len(GetVisualGenes(snake)) = 0 THEN "Normal"
    ELSE Join(GetVisualGenes(snake), 1)

\* getDisplayName()
GetDisplayName(snake) ==
    IF Len(GetVisualGenes(snake)) = 0 THEN "Normal"
    ELSE IF Matching(GetPhenotype(snake)) # {}
    THEN ComboMorphs[First(Matching(GetPhenotype(snake)))].name
    ELSE Join(GetVisualGenes(snake), 1)

\* getSpeciesName()
GetSpeciesName(snake) ==
    IF snake.species \in DOMAIN Species THEN Species[snake.species].commonName
    ELSE snake.species

\* A price is the number ip + num/den with 0 <= num < den, in lowest terms
Amount(n) == [ip |-> n, num |-> 0, den |-> 1]

RECURSIVE Gcd(_, _)
Gcd(a, b) == IF b = 0 THEN a ELSE Gcd(b, a % b)

\* price *= p/q for the factor <<p, q>>
Times(price, factor) ==
    LET whole == price.ip * factor[1]
        den   == price.den * factor[2]
        num   == (whole % factor[2]) * price.den + price.num * factor[1]
        g     == Gcd(num % den, den)
    IN  [ip  |-> (whole \div factor[2]) + (num \div den),
         num |-> (num % den) \div g,
         den |-> den \div g]

\* table[key] || 1.0
FactorOf(table, key) == IF key \in DOMAIN table THEN table[key] ELSE <<1, 1>>

\* species?.basePrice || 100
BasePrice(snake) ==
    IF snake.species \in DOMAIN Species THEN Species[snake.species].basePrice
    ELSE 100

\* A rarity step that takes a super form for the gene it is the super form of
RECURSIVE TimesRarityOfSuperForm(_, _, _)
TimesRarityOfSuperForm(price, phenotype, k) ==
    IF k > Len(phenotype) THEN price
    ELSE CHOOSE r \in
           { TimesRarityOfSuperForm(p, phenotype, k + 1) :
               p \in { IF GeneOf(phenotype[k]) # NoGene
                       THEN Times(price, FactorOf(PricingRules.rarityMultipliers,
                                                  GeneOf(phenotype[k]).rarity))
                       ELSE IF \E j \in 1..Len(Genes) : Genes[j].superForm = phenotype[k]
                       THEN Times(price, FactorOf(PricingRules.rarityMultipliers,
                                Genes[CHOOSE j \in 1..Len(Genes) :
                                        Genes[j].superForm = phenotype[k]].rarity))
                       ELSE price } } : TRUE

\* for (const geneId of phenotype) price *= rarityMultipliers[gene.rarity] || 1.0,
\* where genes[geneId] exists, from trait k on
RECURSIVE TimesRarity(_, _, _)
TimesRarity(price, phenotype, k) ==
    IF k > Len(phenotype) THEN price
    ELSE CHOOSE r \in
           { TimesRarity(p, phenotype, k + 1) :
               p \in { IF GeneOf(phenotype[k]) # NoGene
                       THEN Times(price, FactorOf(PricingRules.rarityMultipliers,
                                                  GeneOf(phenotype[k]).rarity))
                       ELSE price } } : TRUE

\* A combo step that takes the highest floor of all the combos met
ComboFloorOfAll(price, phenotype) ==
    IF Matching(phenotype) = {} THEN price
    ELSE LET basePrice ==
               CHOOSE b \in {ComboMorphs[k].basePrice : k \in Matching(phenotype)} :
                   \A k \in Matching(phenotype) : ComboMorphs[k].basePrice <= b
         IN  IF price.ip >= basePrice THEN price ELSE Amount(basePrice)

\* Math.max(price, combo.basePrice || price) for the first matching combo
ComboFloor(price, phenotype) ==
    IF Matching(phenotype) = {} THEN price
    ELSE LET basePrice == ComboMorphs[First(Matching(phenotype))].basePrice
         IN  IF basePrice = 0 \/ price.ip >= basePrice THEN price
             ELSE Amount(basePrice)

\* 1 + hetCount * rules.hetGeneBonus
HetFactor(hetCount) ==
    << PricingRules.hetGeneBonus[2] + hetCount * PricingRules.hetGeneBonus[1],
       PricingRules.hetGeneBonus[2] >>

\* Math.round(price)
Round(price) == price.ip + (IF 2 * price.num >= price.den THEN 1 ELSE 0)

\* A price with the combo floor applied after all the multipliers
PriceOfFloorLast(snake) ==
    LET phenotype == GetPhenotype(snake)
        gendered  == Times(Amount(BasePrice(snake)),
                           FactorOf(PricingRules.genderMultiplier, snake.sex))
        withHets  == Times(TimesRarity(gendered, phenotype, 1),
                           HetFactor(Len(GetHetGenes(snake))))
        proven    == IF snake.stats.clutchesProduced > 0
                     THEN Times(withHets, PricingRules.provenBreederBonus)
                     ELSE withHets
    IN  ComboFloor(Times(proven, FactorOf(PricingRules.speciesMultipliers,
                                          snake.species)), phenotype)

\* calculatePrice(): the price before rounding
PriceOf(snake) ==
    LET phenotype == GetPhenotype(snake)
        gendered  == Times(Amount(BasePrice(snake)),
                           FactorOf(PricingRules.genderMultiplier, snake.sex))
        floored   == ComboFloor(TimesRarity(gendered, phenotype, 1), phenotype)
        withHets  == Times(floored, HetFactor(Len(GetHetGenes(snake))))
        proven    == IF snake.stats.clutchesProduced > 0
                     THEN Times(withHets, PricingRules.provenBreederBonus)
                     ELSE withHets
    IN  Times(proven, FactorOf(PricingRules.speciesMultipliers, snake.species))

\* calculatePrice()
CalculatePrice(snake) == Round(PriceOf(snake))

\* Tiers whose thresholds belong to the tier below
GetRarityTierInclusive(snake) ==
    LET price == CalculatePrice(snake)
    IN  IF price <= 200 THEN "common"
        ELSE IF price <= 500 THEN "uncommon"
        ELSE IF price <= 1000 THEN "rare"
        ELSE IF price <= 3000 THEN "very-rare"
        ELSE "legendary"

\* getRarityTier()
GetRarityTier(snake) ==
    LET price == CalculatePrice(snake)
    IN  IF price < 200 THEN "common"
        ELSE IF price < 500 THEN "uncommon"
        ELSE IF price < 1000 THEN "rare"
        ELSE IF price < 3000 THEN "very-rare"
        ELSE "legendary"

\* A serialized form that writes the stats of a new snake
SerializeFreshStats(snake) ==
    [id |-> snake.id, species |-> snake.species, sex |-> snake.sex,
     genotype |-> snake.genotype, origin |-> snake.origin,
     parentIds |-> snake.parentIds, birthDate |-> snake.birthDate,
     stats |-> [health |-> 100, fertility |-> 1, clutchesProduced |-> 0]]

\* serialize(): the saved fields; the genotype is the snake's own object
Serialize(snake) ==
    [id |-> snake.id, species |-> snake.species, sex |-> snake.sex,
     genotype |-> snake.genotype, origin |-> snake.origin,
     parentIds |-> snake.parentIds, birthDate |-> snake.birthDate,
     stats |-> snake.stats]

\* Snake.deserialize(data, morphData): new Snake(data, morphData), where a
\* falsy id, origin or birthDate is replaced (config.id || this.generateId(),
\* config.origin || 'wild', config.birthDate || Date.now())
Deserialize(data) ==
    [NewSnake(IF data.id = NoSnake THEN nextId ELSE data.id,
              data.species, data.sex, data.genotype,
              IF data.origin = "" THEN "wild" ELSE data.origin,
              data.parentIds,
              IF data.birthDate = 0 THEN now ELSE data.birthDate)
     EXCEPT !.stats = data.stats]

\* No method of the snake has been called: op is the method called last,
\* threw whether it threw, list, text, number and data what it returned, and
\* seen the number of getPhenotype() calls that returned, with the list the
\* latest of them returned
NoMethodCall ==
    [op |-> "new", threw |-> FALSE, list |-> <<>>, text |-> "", number |-> 0,
     data |-> <<>>, seen |-> [calls |-> 0, list |-> <<>>]]

\* No snake is under observation: the variable holds a snake without id
Nobody == NewSnake(NoSnake, "", "", <<>>, "", <<>>, 0)
NoSubject ==
    /\ subject = Nobody
    /\ lastCall = NoMethodCall
    /\ morphData = [comboMorphs |-> Catalog, pricingRules |-> Rules]

----------------------------------------------------------------------------
(* Genetics: breed and predictOffspring.  Genetics.js is not part of the   *)
(* sources at hand; breed follows the breeding function of                 *)
(* SPECIFICATIONS.md section 2.2 with randomInt, randomChoice and the coin *)
(* flip drawn from the generator handed to it, predictOffspring follows    *)
(* the description of the Punnett table.                                   *)

CrossbreedError == "Cannot crossbreed different species"

ChildGeneSwapped(st, geneId, parent1, parent2) ==
    CHOOSE s \in
        { CHOOSE t \in
            { [rng |-> b.rng,
               genotype |-> Append(st.genotype,
                                   [gene |-> geneId, alleles |-> <<b.val, a.val>>])] :
              b \in {RngPick(a.rng, Alleles(parent2.genotype, geneId))} } : TRUE :
          a \in {RngPick(st.rng, Alleles(parent1.genotype, geneId))} } : TRUE

\* One gene of one child: allele1 = randomChoice(parent1.genotype[geneId]),
\* allele2 = randomChoice(parent2.genotype[geneId]).  st = [rng, genotype]
ChildGene(st, geneId, parent1, parent2) ==
    CHOOSE s \in
        { CHOOSE t \in
            { [rng |-> b.rng,
               genotype |-> Append(st.genotype,
                                   [gene |-> geneId, alleles |-> <<a.val, b.val>>])] :
              b \in {RngPick(a.rng, Alleles(parent2.genotype, geneId))} } : TRUE :
          a \in {RngPick(st.rng, Alleles(parent1.genotype, geneId))} } : TRUE

\* for (const geneId of Object.keys(parent1.genotype)), from key k on
RECURSIVE ChildGenotype(_, _, _, _)
ChildGenotype(st, k, parent1, parent2) ==
    IF k > Len(parent1.genotype) THEN st
    ELSE CHOOSE r \in
            { ChildGenotype(s, k + 1, parent1, parent2) :
              s \in {ChildGene(st, parent1.genotype[k].gene, parent1, parent2)} } : TRUE

\* One child: its genotype, then its sex by a coin flip (next() > 0.5 is
\* male), origin 'bred', the two parents' ids.  st = [rng, offspring]
Child(st, id, birthDate, parent1, parent2) ==
    CHOOSE s \in
        { CHOOSE t \in
            { [rng |-> c.rng,
               offspring |-> Append(st.offspring,
                   NewSnake(id, parent1.species,
                            IF c.val THEN "female" ELSE "male",
                            gt.genotype, "bred", <<parent1.id, parent2.id>>,
                            birthDate))] :
              c \in {RngBool(gt.rng, 1, 2)} } : TRUE :
          gt \in {ChildGenotype([rng |-> st.rng, genotype |-> <<>>], 1,
                                 parent1, parent2)} } : TRUE

\* for (let i = 0; i < clutchSize; i++), from child i on (0-based)
RECURSIVE Children(_, _, _, _, _, _, _)
Children(st, i, clutchSize, firstId, birthDate, parent1, parent2) ==
    IF i >= clutchSize THEN st
    ELSE CHOOSE r \in
            { Children(s, i + 1, clutchSize, firstId, birthDate, parent1, parent2) :
              s \in {Child(st, firstId + i, birthDate, parent1, parent2)} } : TRUE

BreedDrawFirst(parent1, parent2, g, firstId, birthDate) ==
    LET clutchSize == RngInt(g, Species[parent1.species].clutchSize.min,
                                Species[parent1.species].clutchSize.max)
    IN  IF parent1.species # parent2.species
        THEN [ok |-> FALSE, error |-> CrossbreedError, rng |-> clutchSize.rng,
              offspring |-> <<>>]
        ELSE CHOOSE r \in
                { [ok |-> TRUE, error |-> "", rng |-> st.rng, offspring |-> st.offspring] :
                  st \in {Children([rng |-> clutchSize.rng, offspring |-> <<>>], 0,
                                   clutchSize.val, firstId, birthDate,
                                   parent1, parent2)} } : TRUE

\* breed(parent1, parent2) drawing from generator g: [ok, error: the message
\* thrown, rng: the generator afterwards, offspring: the clutch returned]
Breed(parent1, parent2, g, firstId, birthDate) ==
    IF parent1.species # parent2.species
    THEN [ok |-> FALSE, error |-> CrossbreedError, rng |-> g, offspring |-> <<>>]
    ELSE CHOOSE r \in
            { [ok |-> TRUE, error |-> "", rng |-> st.rng, offspring |-> st.offspring] :
              st \in { CHOOSE t \in
                         { Children([rng |-> clutchSize.rng, offspring |-> <<>>], 0,
                                    clutchSize.val, firstId, birthDate,
                                    parent1, parent2) :
                           clutchSize \in
                             {RngInt(g, Species[parent1.species].clutchSize.min,
                                        Species[parent1.species].clutchSize.max)} } :
                         TRUE } } : TRUE

\* The genes of parent1's genotype that parent2's genotype has too, in order
RECURSIVE SharedGenes(_, _, _)
SharedGenes(parent1, parent2, k) ==
    IF k > Len(parent1.genotype) THEN <<>>
    ELSE (IF Alleles(parent2.genotype, parent1.genotype[k].gene) # <<>>
          THEN <<parent1.genotype[k].gene>> ELSE <<>>)
         \o SharedGenes(parent1, parent2, k + 1)

\* The four combinations of one allele of each parent, each of probability 0.25
Combinations(a, b) == { <<i, j>> : i \in 1..Len(a), j \in 1..Len(b) }

\* The resulting pair of one combination; a pair is unordered, so it is the
\* set of its alleles
Pair(a, b, c) == {a[c[1]], b[c[2]]}

\* Probabilities are counted in quarters: k stands for k * 0.25
OutcomesDistinctOnly(a, b) ==
    [pair \in { Pair(a, b, c) : c \in Combinations(a, b) } |-> 1]

\* The outcomes of one gene: resulting pair |-> summed probability
Outcomes(a, b) ==
    [pair \in { Pair(a, b, c) : c \in Combinations(a, b) } |->
        Cardinality({ c \in Combinations(a, b) : Pair(a, b, c) = pair })]

\* predictOffspring(parent1, parent2)
PredictOffspring(parent1, parent2) ==
    LET shared == SharedGenes(parent1, parent2, 1)
    IN  [k \in 1..Len(shared) |->
            [gene |-> shared[k],
             outcomes |-> Outcomes(Alleles(parent1.genotype, shared[k]),
                                   Alleles(parent2.genotype, shared[k]))]]

----------------------------------------------------------------------------
(* Game state: the collection and the breeding panel *)

(* Bounds of the breeding model *)
MaxBreedings == 2

Genotype(albino, axanthic, anaconda, arctic) ==
    << [gene |-> "albino", alleles |-> albino],
       [gene |-> "axanthic", alleles |-> axanthic],
       [gene |-> "anaconda", alleles |-> anaconda],
       [gene |-> "arctic", alleles |-> arctic] >>

\* The snakes captured before breeding starts: two westerns and an eastern,
\* each with the genes of its species.  The encounter dialog has shown each
\* one's display name, so its phenotype is resolved.
Founders ==
    [id \in 1..3 |-> Memoized(
        IF id = 1
        THEN NewSnake(1, "western", "male",
                 Genotype(<<"albino", "+">>, <<"+", "+">>, <<"anaconda", "+">>,
                          <<"+", "+">>)
                 \o << [gene |-> "lemon_ghost", alleles |-> <<"+", "lemon_ghost">>] >>,
                 "wild", <<>>, 0)
        ELSE IF id = 2
        THEN NewSnake(2, "western", "female",
                 Genotype(<<"albino", "albino">>, <<"axanthic", "+">>, <<"+", "+">>,
                          <<"arctic", "arctic">>)
                 \o << [gene |-> "lemon_ghost", alleles |-> <<"+", "+">>] >>,
                 "wild", <<>>, 0)
        ELSE NewSnake(3, "eastern", "female",
                 Genotype(<<"+", "albino">>, <<"wild", "wild">>,
                          <<"anaconda", "anaconda">>, <<"+", "+">>),
                 "wild", <<>>, 0))]

NoParents == [p1 |-> NoSnake, p2 |-> NoSnake]
NoPreview == [shown |-> FALSE, table |-> <<>>]
NoBreed == [called |-> FALSE, p1 |-> NoSnake, p2 |-> NoSnake,
            parent1 |-> NewSnake(NoSnake, "", "", <<>>, "", <<>>, 0),
            parent2 |-> NewSnake(NoSnake, "", "", <<>>, "", <<>>, 0),
            rng |-> SeededRandom(0),
            result |-> [ok |-> FALSE, error |-> "", rng |-> SeededRandom(0),
                        offspring |-> <<>>],
            alert |-> ""]

\* The game with its collection, nobody breeding; the generator of breed()
\* is in state g
GameStarted(g) ==
    /\ snakes = Founders
    /\ collection = <<1, 2, 3>>
    /\ discoveredMorphs = {}
    /\ breedingParents = NoParents
    /\ predictions = NoPreview
    /\ breedRng = g
    /\ lastBreed = NoBreed
    /\ nextId = 4
    /\ now = 0

RngIdle ==
    /\ rng = [g \in {1, 2} |-> SeededRandom(DEFAULT_SEED)]
    /\ log = [g \in {1, 2} |-> <<>>]
    /\ resets = [g \in {1, 2} |-> FALSE]
    /\ inputList = <<>>

----------------------------------------------------------------------------
(* World: the snake spots, and the generator of wild snakes *)

NUM_WILD_SNAKES == 22
NUM_COINS == 40
NUM_NEARBY_COINS == 5

(* Bounds of the encounter model *)
MaxEncounters == 3
MaxSpotsVisited == 4
MaxCollection == 3

\* this.coinRespawnTime, in milliseconds
coinRespawnTime == 60000

(* Bounds of the coin model: the clock until which update() is followed,   *)
(* and the number of coins the player walks up to                          *)
MaxClock == 150000
MaxCoinsVisited == 2

Whole(n) == [ip |-> n, fr |-> 0]

\* Math.abs(x) < n for a number x = ip + fr/LcgM and an integer n
AbsLess(x, n) == x.ip < n /\ (x.ip > 0 - n \/ (x.ip = 0 - n /\ x.fr > 0))

\* species: this.random.pick(['western', 'western', 'western', 'eastern'])
SpeciesChoices == <<"western", "western", "western", "eastern">>

StarterPositions == << <<15, 10>>, <<0 - 12, 15>>, <<5, 20>> >>

\* isStarter ? float(0, 0.5) : float(0, 1).  The rarity [fr, scale] is the
\* number fr / (LcgM * scale): halving a double is exact.
RarityDraw(g, isStarter) ==
    LET d == RngNext(g)
    IN  [rng |-> d.rng,
         val |-> [fr |-> d.val.fr, scale |-> IF isStarter THEN 2 ELSE 1],
         n |-> d.n]

\* addSnakeSpot(x, z, id, isStarter): seed, rarity and species are drawn in
\* this order.  st = [rng, spots]
AddSnakeSpot(st, x, z, id, isStarter) ==
    CHOOSE r \in
      { CHOOSE r2 \in
          { CHOOSE r3 \in
              { [rng |-> species.rng,
                 spots |-> Append(st.spots,
                    [id |-> id, x |-> x, z |-> z, discovered |-> FALSE,
                     collected |-> FALSE, isStarter |-> isStarter,
                     seed |-> seed.val, rarity |-> rarity.val,
                     species |-> species.val])] :
                species \in {RngPick(rarity.rng, SpeciesChoices)} } : TRUE :
            rarity \in {RarityDraw(seed.rng, isStarter)} } : TRUE :
        seed \in {RngInt(st.rng, 0, MaxEncounterSeed)} } : TRUE

\* starterPositions.forEach((pos, i) => addSnakeSpot(pos.x, pos.z, ..., true))
RECURSIVE Starters(_, _)
Starters(st, i) ==
    IF i >= Len(StarterPositions) THEN st
    ELSE CHOOSE r \in
           { Starters(s, i + 1) :
             s \in {AddSnakeSpot(st, Whole(StarterPositions[i + 1][1]),
                                 Whole(StarterPositions[i + 1][2]),
                                 <<"starter", i>>, TRUE)} } : TRUE

\* One pass of the loop over the wild snakes: x and z are drawn, and the
\* spot is skipped when it lies in the home area
WildSpot(st, i) ==
    CHOOSE r \in
      { CHOOSE r2 \in
          { IF AbsLess(x.val, 20) /\ AbsLess(z.val, 25)
            THEN [rng |-> z.rng, spots |-> st.spots]
            ELSE AddSnakeSpot([rng |-> z.rng, spots |-> st.spots], x.val, z.val,
                              <<"wild", i>>, FALSE) :
            z \in {RngFloat(x.rng, 0 - 85, 85)} } : TRUE :
        x \in {RngFloat(st.rng, 0 - 85, 85)} } : TRUE

\* for (let i = 0; i < NUM_WILD_SNAKES; i++)
RECURSIVE WildSpots(_, _)
WildSpots(st, i) ==
    IF i >= NUM_WILD_SNAKES THEN st
    ELSE CHOOSE r \in { WildSpots(s, i + 1) : s \in {WildSpot(st, i)} } : TRUE

\* createSnakeSpots() on generator g with the spots there are
CreateSnakeSpotsOn(g, spots) == WildSpots(Starters([rng |-> g, spots |-> spots], 0), 0)

\* addCoin(x, z, id, value): the coin as checkNearbyCoins() reads it, with
\* respawnAt 0 for null
AddCoin(id, value) ==
    [id |-> id, value |-> value, collected |-> FALSE, respawnAt |-> 0, visible |-> TRUE]

\* for (let i = 0; i < NUM_COINS - nearbyPositions.length; i++): the angle
\* float(0, 2 * Math.PI), of which only the call of next() is kept, the
\* distance float(20, 90) = 20 + 70 * next() and
\* the value Math.floor(5 + distance * 0.3), which is 11 + floor(21 * next())
\* (no draw of this generator comes close enough to a multiple of 1/21 for
\* the rounding of the doubles to matter).  st = [rng, coins]
RECURSIVE FarCoins(_, _)
FarCoins(st, i) ==
    IF i >= NUM_COINS - NUM_NEARBY_COINS THEN st
    ELSE CHOOSE r \in
           { FarCoins([rng |-> distance.rng,
                       coins |-> Append(st.coins,
                           AddCoin(<<"coin", i>>, 11 + Product(distance.val.fr, 21).q))],
                      i + 1) :
             distance \in {RngNext(RngNext(st.rng).rng)} } : TRUE

\* createCoins() on generator g: the coins near home are worth 10 each
CreateCoinsOn(g) ==
    FarCoins([rng |-> g,
              coins |-> [i \in 1..NUM_NEARBY_COINS |-> AddCoin(<<"coin_near", i - 1>>, 10)]],
             0)

(* generateWildSnakeFromSeed.  Genetics.js is not part of the sources at   *)
(* hand; what follows is the description of the wild-encounter generator:  *)
(* a generator of its own seeded with the seed, for every gene of the      *)
(* species each of the two alleles mutant with a probability that grows    *)
(* with the rarity target and falls with the rarity of the gene (here      *)
(* rarity target / gene rarity), then the sex by a coin flip.              *)

\* next() * weight < rarity
MutantAllele(g, weight, rarity) ==
    LET d == RngNext(g)
        p == Product(d.val.fr, weight * rarity.scale)
    IN  [rng |-> d.rng, val |-> (p.q = 0 /\ p.r < rarity.fr), n |-> d.n]

\* The alleles of gene k of the catalog.  st = [rng, genotype]
WildGene(st, k, rarity) ==
    CHOOSE r \in
      { CHOOSE r2 \in
          { [rng |-> b.rng,
             genotype |-> Append(st.genotype,
                [gene |-> Genes[k].id,
                 alleles |-> << IF a.val THEN Genes[k].id ELSE "+",
                                IF b.val THEN Genes[k].id ELSE "+" >>])] :
            b \in {MutantAllele(a.rng, Genes[k].rarity, rarity)} } : TRUE :
        a \in {MutantAllele(st.rng, Genes[k].rarity, rarity)} } : TRUE

RECURSIVE WildGenes(_, _, _, _)
WildGenes(st, k, species, rarity) ==
    IF k > Len(Genes) THEN st
    ELSE IF species \notin Genes[k].species THEN WildGenes(st, k + 1, species, rarity)
    ELSE CHOOSE r \in
           { WildGenes(s, k + 1, species, rarity) :
             s \in {WildGene(st, k, rarity)} } : TRUE

\* A wild snake drawn from generator g: [rng: g afterwards, snake]
WildSnake(g, species, rarity, id, birthDate) ==
    CHOOSE r \in
      { CHOOSE r2 \in
          { [rng |-> sex.rng,
             snake |-> NewSnake(id, species, IF sex.val THEN "female" ELSE "male",
                                st.genotype, "wild", <<>>, birthDate)] :
            sex \in {RngBool(st.rng, 1, 2)} } : TRUE :
        st \in {WildGenes([rng |-> g, genotype |-> <<>>], 1, species, rarity)} } : TRUE

\* generateWildSnakeFromSeed(seed, species, rarity)
GenerateWildSnakeFromSeed(seed, species, rarity, id, birthDate) ==
    WildSnake(SeededRandom(seed), species, rarity, id, birthDate).snake

\* new World(...) in a new Game() of a browser that holds no saved game: the
\* generator is constructed, there are no spots and no coins yet
WorldConstructed ==
    /\ worldRng = SeededRandom(WORLD_SEED)
    /\ worldPhase = "constructed"
    /\ snakeSpots = <<>>
    /\ currentEncounter = <<>>
    /\ currentEncounterData = 0
    /\ generated = <<>>
    /\ encounters = 0
    /\ coins = <<>>
    /\ coinCalls = <<>>
    /\ money = 500
    /\ localStorage = <<>>

----------------------------------------------------------------------------
(* Callers of the generator *)

Generators == {1, 2}

\* Arguments the program calls int() with: array indices, encounter seeds
\* (World.addSnakeSpot), clutch sizes; and a range with a negative end
IntRanges == {<<0, 0>>, <<0, 3>>, <<8, 25>>, <<0, MaxEncounterSeed>>, <<0 - 2, 1>>}
FloatRanges == {<<0, 1>>, <<0 - 85, 85>>}
PickLists == {SpeciesChoices, <<"+", "albino">>}
ShuffleLists == {<<>>, <<7>>, <<1, 2>>, <<1, 2, 3>>, <<5, 5, 6>>, <<1, 2, 3, 4>>}

NoCall == [g |-> 0, op |-> "new", args |-> <<>>, pre |-> SeededRandom(0),
           post |-> SeededRandom(0), val |-> 0, n |-> 0, swaps |-> <<>>]

\* A call op(args) on generator g with result d
Called(g, op, args, d) ==
    /\ Len(log[g]) < MaxCalls
    /\ rng' = [rng EXCEPT ![g] = d.rng]
    /\ log' = [log EXCEPT ![g] = Append(@, [op |-> op, args |-> args, val |-> d.val])]
    /\ last' = [g |-> g, op |-> op, args |-> args, pre |-> rng[g], post |-> d.rng,
                val |-> d.val, n |-> d.n, swaps |-> <<>>]
    /\ UNCHANGED <<resets, gameVars, worldVars, snakeVars>>

CallNext(g) ==
    /\ Called(g, "next", <<>>, RngNext(rng[g]))
    /\ UNCHANGED inputList

CallFloat(g, min, max) ==
    /\ Called(g, "float", <<min, max>>, RngFloat(rng[g], min, max))
    /\ UNCHANGED inputList

CallInt(g, min, max) ==
    /\ Called(g, "int", <<min, max>>, RngInt(rng[g], min, max))
    /\ UNCHANGED inputList

CallBool(g, p, d) ==
    /\ Called(g, "bool", <<p, d>>, RngBool(rng[g], p, d))
    /\ UNCHANGED inputList

CallPick(g, array) ==
    /\ Called(g, "pick", <<array>>, RngPick(rng[g], array))
    /\ inputList' = array

CallShuffle(g, array) ==
    LET d == RngShuffle(rng[g], array)
    IN  /\ Len(log[g]) < MaxCalls
        /\ rng' = [rng EXCEPT ![g] = d.rng]
        /\ log' = [log EXCEPT ![g] = Append(@, [op |-> "shuffle", args |-> <<array>>, val |-> d.val])]
        /\ last' = [g |-> g, op |-> "shuffle", args |-> <<array>>, pre |-> rng[g],
                    post |-> d.rng, val |-> d.val, n |-> d.n, swaps |-> d.swaps]
        /\ inputList' = d.arr
        /\ UNCHANGED <<resets, gameVars, worldVars, snakeVars>>

CallReset(g) ==
    /\ log[g] # <<>>
    /\ rng' = [rng EXCEPT ![g] = Reset(rng[g])]
    /\ log' = [log EXCEPT ![g] = <<>>]
    /\ resets' = [resets EXCEPT ![g] = TRUE]
    /\ last' = [g |-> g, op |-> "reset", args |-> <<>>, pre |-> rng[g],
                post |-> Reset(rng[g]), val |-> 0, n |-> 0, swaps |-> <<>>]
    /\ UNCHANGED <<inputList, gameVars, worldVars, snakeVars>>

----------------------------------------------------------------------------
(* Two generators constructed with the same seed, called independently *)

InitRng ==
    /\ \E s \in Seeds : rng = [g \in Generators |-> SeededRandom(s)]
    /\ log = [g \in Generators |-> <<>>]
    /\ resets = [g \in Generators |-> FALSE]
    /\ last = NoCall
    /\ inputList = <<>>
    /\ GameStarted(SeededRandom(WORLD_SEED))
    /\ WorldConstructed
    /\ NoSubject

NextRng ==
    \E g \in Generators :
        \/ CallNext(g)
        \/ CallInt(g, 0, MaxEncounterSeed)
        \/ CallShuffle(g, <<1, 2, 3>>)
        \/ CallReset(g)

SpecRng == InitRng /\ [][NextRng]_vars

(* One generator, fresh or in the middle of its stream, and every draw    *)
(* operation.  48271 is a primitive root modulo LcgM, so every state in   *)
(* 1..LcgM-1 lies on the stream of every non-zero seed.                   *)

InitDraw ==
    /\ \/ \E s \in Seeds : rng = [g \in Generators |-> SeededRandom(s)]
       \/ \E s \in Seeds \ {0}, c \in EdgeStates :
              rng = [g \in Generators |-> [seed |-> s, current |-> c]]
    /\ log = [g \in Generators |-> <<>>]
    /\ resets = [g \in Generators |-> FALSE]
    /\ last = NoCall
    /\ inputList = <<>>
    /\ GameStarted(SeededRandom(WORLD_SEED))
    /\ WorldConstructed
    /\ NoSubject

NextDraw ==
    \/ CallNext(1)
    \/ \E r \in FloatRanges : CallFloat(1, r[1], r[2])
    \/ \E r \in IntRanges : CallInt(1, r[1], r[2])
    \/ CallBool(1, 1, 2)
    \/ \E a \in PickLists : CallPick(1, a)
    \/ \E a \in ShuffleLists : CallShuffle(1, a)
    \/ CallReset(1)

SpecDraw == InitDraw /\ [][NextDraw]_vars

----------------------------------------------------------------------------
(* The breeding panel of Game *)

\* updateBreedingUI(): getDisplayName() of each selected parent resolves and
\* caches its phenotype; the preview is shown when both slots are filled
UpdateBreedingUI(heap, parents) ==
    LET selected == {parents.p1, parents.p2} \ {NoSnake}
        after == [id \in DOMAIN heap |->
                    IF id \in selected THEN Memoized(heap[id]) ELSE heap[id]]
    IN  /\ snakes' = after
        /\ predictions' =
              IF parents.p1 # NoSnake /\ parents.p2 # NoSnake
              THEN [shown |-> TRUE,
                    table |-> PredictOffspring(after[parents.p1], after[parents.p2])]
              ELSE NoPreview

\* populateBreeding()
PopulateBreeding ==
    /\ breedingParents' = NoParents
    /\ UpdateBreedingUI(snakes, NoParents)
    /\ UNCHANGED <<collection, discoveredMorphs, breedRng, lastBreed, nextId, now>>
    /\ UNCHANGED <<rngVars, worldVars, snakeVars>>

\* handleParentSlotClick(slot) with the index typed into the prompt
HandleParentSlotClick(slot, index) ==
    /\ IF index + 1 \in 1..Len(collection)
       THEN LET parents == IF slot = "parent1"
                           THEN [breedingParents EXCEPT !.p1 = collection[index + 1]]
                           ELSE [breedingParents EXCEPT !.p2 = collection[index + 1]]
            IN  /\ breedingParents' = parents
                /\ UpdateBreedingUI(snakes, parents)
       ELSE UNCHANGED <<breedingParents, snakes, predictions>>
    /\ UNCHANGED <<collection, discoveredMorphs, breedRng, lastBreed, nextId, now>>
    /\ UNCHANGED <<rngVars, worldVars, snakeVars>>

\* breedSnakes(), enabled by the breed button when both slots are filled
BreedSnakes ==
    /\ breedingParents.p1 # NoSnake /\ breedingParents.p2 # NoSnake
    /\ now < MaxBreedings
    /\ \E r \in {Breed(snakes[breedingParents.p1], snakes[breedingParents.p2],
                        breedRng, nextId, now)} :
          /\ breedRng' = r.rng
          /\ nextId' = nextId + Len(r.offspring)
          /\ IF r.ok /\ Len(r.offspring) > 0
             THEN \E baby \in {Memoized(r.offspring[1])} :
                    /\ collection' = Append(collection, baby.id)
                    /\ discoveredMorphs' = discoveredMorphs \cup
                          {GetVisualGenes(baby)[k] : k \in 1..Len(GetVisualGenes(baby))}
                    /\ breedingParents' = NoParents
                    /\ snakes' = [id \in DOMAIN snakes \cup {baby.id} |->
                                     IF id = baby.id THEN baby ELSE snakes[id]]
                    /\ predictions' = NoPreview
                    /\ lastBreed' = [called |-> TRUE,
                                     p1 |-> breedingParents.p1, p2 |-> breedingParents.p2,
                                     parent1 |-> snakes[breedingParents.p1],
                                     parent2 |-> snakes[breedingParents.p2],
                                     rng |-> breedRng, result |-> r,
                                     alert |-> "Breeding Successful!"]
             ELSE /\ lastBreed' = [called |-> TRUE,
                                   p1 |-> breedingParents.p1, p2 |-> breedingParents.p2,
                                   parent1 |-> snakes[breedingParents.p1],
                                   parent2 |-> snakes[breedingParents.p2],
                                   rng |-> breedRng, result |-> r,
                                   alert |-> r.error]
                  /\ UNCHANGED <<collection, discoveredMorphs, breedingParents,
                                 snakes, predictions>>
    /\ now' = now + 1
    /\ UNCHANGED <<rngVars, worldVars, snakeVars>>

\* The generator of breed() is in the middle of its stream, where its next
\* draw is the smallest there is
InitBreed ==
    /\ RngIdle
    /\ last = NoCall
    /\ GameStarted([seed |-> WORLD_SEED, current |-> LowEdgeState])
    /\ WorldConstructed
    /\ NoSubject

NextBreed ==
    \/ PopulateBreeding
    \/ \E slot \in {"parent1", "parent2"}, index \in 0..Len(collection) :
           HandleParentSlotClick(slot, index)
    \/ BreedSnakes

SpecBreed == InitBreed /\ [][NextBreed]_vars

----------------------------------------------------------------------------
(* World.init() and the encounters.  init() resets the generator and runs  *)
(* createSnakeSpots() and createCoins() one after the other; the model     *)
(* takes them as two steps, so that an encounter may fall between them:    *)
(* the world's generator is then seen in more states than the program      *)
(* shows it in.                                                            *)

GameNew ==
    /\ snakes = <<>>
    /\ collection = <<>>
    /\ discoveredMorphs = {}
    /\ breedingParents = NoParents
    /\ predictions = NoPreview
    /\ breedRng = SeededRandom(WORLD_SEED)
    /\ lastBreed = NoBreed
    /\ nextId = 1
    /\ now = 0

\* init(): this.random.reset(); ...; this.createSnakeSpots()
CreateSnakeSpots ==
    /\ worldPhase = "constructed"
    /\ \E st \in {CreateSnakeSpotsOn(Reset(worldRng), snakeSpots)} :
          /\ worldRng' = st.rng
          /\ snakeSpots' = st.spots
    /\ worldPhase' = "spots"
    /\ UNCHANGED <<currentEncounter, currentEncounterData, generated, encounters,
                   sessionVars>>
    /\ UNCHANGED <<rngVars, gameVars, snakeVars>>

\* init(): this.createCoins()
CreateCoins ==
    /\ worldPhase = "spots"
    /\ \E st \in {CreateCoinsOn(worldRng)} :
          /\ worldRng' = st.rng
          /\ coins' = st.coins
    /\ worldPhase' = "ready"
    /\ UNCHANGED <<snakeSpots, currentEncounter, currentEncounterData, generated,
                   encounters, localStorage, money, coinCalls>>
    /\ UNCHANGED <<rngVars, gameVars, snakeVars>>

Triple(spot) == <<spot.seed, spot.species, spot.rarity>>

\* The record of what the generator returned for a triple
Generated(triple, snake) ==
    [t \in DOMAIN generated \cup {triple} |->
        IF t \in DOMAIN generated
        THEN IF t = triple THEN [generated[t] EXCEPT !.calls = @ + 1] ELSE generated[t]
        ELSE [genotype |-> snake.genotype, sex |-> snake.sex, world |-> worldRng,
              calls |-> 1]]

HandleSnakeDiscoveryShared(i) ==
    /\ i \in 1..Len(snakeSpots)
    /\ ~snakeSpots[i].collected
    /\ encounters < MaxEncounters
    /\ \E w \in {WildSnake(worldRng, snakeSpots[i].species, snakeSpots[i].rarity,
                            nextId, now)} :
          /\ currentEncounter' = <<Memoized(w.snake)>>
          /\ generated' = Generated(Triple(snakeSpots[i]), w.snake)
          /\ worldRng' = w.rng
    /\ snakeSpots' = [snakeSpots EXCEPT ![i].discovered = TRUE]
    /\ currentEncounterData' = i
    /\ nextId' = nextId + 1
    /\ encounters' = encounters + 1
    /\ UNCHANGED <<worldPhase, snakes, collection, discoveredMorphs, breedingParents,
                   predictions, breedRng, lastBreed, now, sessionVars>>
    /\ UNCHANGED <<rngVars, snakeVars>>

\* A click next to spot i: interactWithNearbySnake(), handleSnakeDiscovery(),
\* showEncounterModal() (which resolves the phenotype for the display name)
HandleSnakeDiscovery(i) ==
    /\ i \in 1..Len(snakeSpots)
    /\ ~snakeSpots[i].collected
    /\ encounters < MaxEncounters
    /\ \E snake \in {GenerateWildSnakeFromSeed(snakeSpots[i].seed, snakeSpots[i].species,
                                                 snakeSpots[i].rarity, nextId, now)} :
          /\ currentEncounter' = <<Memoized(snake)>>
          /\ generated' = Generated(Triple(snakeSpots[i]), snake)
    /\ snakeSpots' = [snakeSpots EXCEPT ![i].discovered = TRUE]
    /\ currentEncounterData' = i
    /\ nextId' = nextId + 1
    /\ encounters' = encounters + 1
    /\ UNCHANGED <<worldRng, worldPhase, snakes, collection, discoveredMorphs,
                   breedingParents, predictions, breedRng, lastBreed, now, sessionVars>>
    /\ UNCHANGED <<rngVars, snakeVars>>

\* An object made by new Snake(...) has the methods of the class, and the
\* phenotype cache its constructor sets; an object made by JSON.parse has
\* the fields that were written, and no method
IsSnake(object) == "phenotype" \in DOMAIN object

\* getSerializableState(), of which money, discoveredMorphs and collection
\* are kept: heap are the objects, ids the collection.  Array.from(set) is
\* given as the set it lists
GetSerializableState(heap, ids, morphs) ==
    [money |-> money, discoveredMorphs |-> morphs,
     collection |-> [k \in 1..Len(ids) |-> Serialize(heap[ids[k]])]]

\* captureSnake().  s.serialize() of getSerializableState() is a TypeError
\* on an element that is no Snake: the statements after it are not run, the
\* encounter stays open and nothing is saved.  SaveManager.save() writes
\* JSON.stringify of the state, load() returns JSON.parse of the item: the
\* item is given as the state load() returns
CaptureSnake ==
    /\ currentEncounter # <<>>
    /\ Len(collection) < MaxCollection
    /\ \E snake \in {currentEncounter[1]} :
       \E heap \in {[id \in DOMAIN snakes \cup {snake.id} |->
                        IF id = snake.id THEN snake ELSE snakes[id]]} :
       \E ids \in {Append(collection, snake.id)} :
       \E morphs \in {discoveredMorphs \cup
                {GetVisualGenes(snake)[k] : k \in 1..Len(GetVisualGenes(snake))}} :
          /\ collection' = ids
          /\ snakes' = heap
          /\ discoveredMorphs' = morphs
          /\ IF \A k \in 1..Len(ids) : IsSnake(heap[ids[k]])
             THEN /\ localStorage' = <<GetSerializableState(heap, ids, morphs)>>
                  /\ currentEncounter' = <<>>
             ELSE UNCHANGED <<localStorage, currentEncounter>>
    /\ snakeSpots' = IF currentEncounterData # 0
                     THEN [snakeSpots EXCEPT ![currentEncounterData].collected = TRUE]
                     ELSE snakeSpots
    /\ UNCHANGED <<worldRng, worldPhase, currentEncounterData, generated, encounters,
                   breedingParents, predictions, breedRng, lastBreed, nextId, now,
                   money, coins, coinCalls>>
    /\ UNCHANGED <<rngVars, snakeVars>>

\* releaseSnake()
ReleaseSnake ==
    /\ currentEncounter' = <<>>
    /\ UNCHANGED <<worldRng, worldPhase, snakeSpots, currentEncounterData, generated,
                   encounters, sessionVars>>
    /\ UNCHANGED <<rngVars, gameVars, snakeVars>>

\* The page is opened again: new Game() and init(), which merges what
\* saveManager.load() returns into the state of a new game, then new World(...)
Reopen ==
    /\ IF localStorage = <<>>
       THEN /\ collection' = <<>>
            /\ snakes' = <<>>
            /\ discoveredMorphs' = {}
            /\ money' = 500
       ELSE \E savedState \in {localStorage[1]} :
            /\ collection' = [k \in 1..Len(savedState.collection) |->
                                 savedState.collection[k].id]
            /\ snakes' = [id \in {savedState.collection[k].id :
                                     k \in 1..Len(savedState.collection)} |->
                             savedState.collection[
                                 CHOOSE k \in 1..Len(savedState.collection) :
                                     savedState.collection[k].id = id]]
            /\ discoveredMorphs' = savedState.discoveredMorphs
            /\ money' = savedState.money
    /\ breedingParents' = NoParents
    /\ predictions' = NoPreview
    /\ breedRng' = SeededRandom(WORLD_SEED)
    /\ worldRng' = SeededRandom(WORLD_SEED)
    /\ worldPhase' = "constructed"
    /\ snakeSpots' = <<>>
    /\ currentEncounter' = <<>>
    /\ currentEncounterData' = 0
    /\ coins' = <<>>
    /\ coinCalls' = <<>>
    /\ UNCHANGED <<localStorage, generated, encounters, lastBreed, nextId, now>>
    /\ UNCHANGED <<rngVars, snakeVars>>

InitWild ==
    /\ RngIdle
    /\ last = NoCall
    /\ GameNew
    /\ WorldConstructed
    /\ NoSubject

NextWild ==
    \/ CreateSnakeSpots
    \/ CreateCoins
    \/ \E i \in 1..MaxSpotsVisited : HandleSnakeDiscovery(i)
    \/ CaptureSnake
    \/ ReleaseSnake

SpecWild == InitWild /\ [][NextWild]_vars

(* Coins.  The clock now counts the milliseconds since the page was opened *)

\* A checkNearbyCoins() that never puts a collected coin back
CheckNearbyCoinsNoRespawn(list, time, near) ==
    [coins |-> [k \in 1..Len(list) |->
                   IF ~list[k].collected /\ k = near
                   THEN [list[k] EXCEPT !.collected = TRUE,
                                        !.respawnAt = time + coinRespawnTime,
                                        !.visible = FALSE]
                   ELSE list[k]],
     calls |-> IF near \in 1..Len(list) /\ ~list[near].collected
               THEN <<list[near].value>> ELSE <<>>]

\* checkNearbyCoins() at Date.now() = time, the player within
\* coinCollectionRadius of coin near (of no coin when near is 0): the coins
\* after the loop, and the values onCoinCollected was called with
CheckNearbyCoins(list, time, near) ==
    LET respawned == [k \in 1..Len(list) |->
                         IF /\ list[k].collected
                            /\ list[k].respawnAt # 0
                            /\ time >= list[k].respawnAt
                         THEN [list[k] EXCEPT !.collected = FALSE, !.respawnAt = 0,
                                              !.visible = TRUE]
                         ELSE list[k]]
    IN  [coins |-> [k \in 1..Len(list) |->
                       IF ~respawned[k].collected /\ k = near
                       THEN [respawned[k] EXCEPT !.collected = TRUE,
                                                 !.respawnAt = time + coinRespawnTime,
                                                 !.visible = FALSE]
                       ELSE respawned[k]],
         calls |-> IF near \in 1..Len(list) /\ ~respawned[near].collected
                   THEN <<list[near].value>> ELSE <<>>]

\* One frame of animate(): world.update() after elapsed milliseconds, which
\* runs checkNearbyCoins(); the callback of Game.init() adds each value to
\* the money
Update(elapsed, near) ==
    /\ worldPhase = "ready"
    /\ now < MaxClock
    /\ now' = now + elapsed
    /\ \E r \in {CheckNearbyCoins(coins, now + elapsed, near)} :
          /\ coins' = r.coins
          /\ coinCalls' = r.calls
          /\ money' = money + (IF r.calls = <<>> THEN 0 ELSE r.calls[1])
    /\ UNCHANGED <<snakes, collection, discoveredMorphs, breedingParents, predictions,
                   breedRng, lastBreed, nextId>>
    /\ UNCHANGED <<worldRng, worldPhase, snakeSpots, currentEncounter,
                   currentEncounterData, generated, encounters, localStorage>>
    /\ UNCHANGED <<rngVars, snakeVars>>

\* The frames: the player stands by no coin, or by one of the coins visited
\* (the last coin near home and the coins that follow it), and a frame comes
\* a third of the respawn time, one millisecond less than the respawn time
\* or the respawn time after the frame before
NextCoin ==
    \/ CreateSnakeSpots
    \/ CreateCoins
    \/ \E elapsed \in {coinRespawnTime \div 3, coinRespawnTime - 1, coinRespawnTime} :
       \E near \in {0} \cup NUM_NEARBY_COINS..(NUM_NEARBY_COINS + MaxCoinsVisited - 1) :
           Update(elapsed, near)

SpecCoin == InitWild /\ [][NextCoin]_vars

\* requestAnimationFrame(this.animate) asks for the next frame in every
\* frame: once the game has started, frames keep coming
FairSpecCoin ==
    /\ SpecCoin
    /\ WF_vars(\E elapsed \in {coinRespawnTime \div 3, coinRespawnTime - 1,
                                 coinRespawnTime} :
               \E near \in {0} \cup
                            NUM_NEARBY_COINS..(NUM_NEARBY_COINS + MaxCoinsVisited - 1) :
                   Update(elapsed, near))

(* The same game over several openings of the page *)
NextSave ==
    \/ NextWild
    \/ Reopen

SpecSave == InitWild /\ [][NextSave]_vars

----------------------------------------------------------------------------
(* One snake restored from saved data, and the calls of its methods *)

\* Bounds of the snake model
MaxAlleles == 3
MaxPhenotypeCalls == 2

\* A key no gene of the catalog has, and an allele value that is neither a
\* wild-type marker nor the id of the gene it stands under
UnknownKey == "mystery"
ForeignAllele == "sable"

Entry(geneId, alleles) == [gene |-> geneId, alleles |-> alleles]
MissingEntry(geneId) == [gene |-> geneId, alleles |-> <<>>, missing |-> TRUE]

\* Every array of at most MaxAlleles values for the key geneId
AlleleArrays(geneId) ==
    UNION { [1..n -> {geneId, "+", "wild", ForeignAllele}] : n \in 0..MaxAlleles }

\* The genotypes of one key: a catalog gene or an unknown key, its value an
\* array of any length or missing
OneKeyGenotypes ==
    UNION { { <<Entry(g, a)>> : a \in AlleleArrays(g) } \cup { <<MissingEntry(g)>> } :
            g \in GeneIds \cup {UnknownKey} }

Hom(geneId) == Entry(geneId, <<geneId, geneId>>)
Het(geneId) == Entry(geneId, <<geneId, "+">>)
Wild(geneId) == Entry(geneId, <<"+", "+">>)

\* Genotypes of several keys: wild type, carriers, combos, super forms, keys
\* inserted in another order than the catalog's, unknown keys, malformed values
ManyKeyGenotypes ==
    { <<>>,
      << Wild("albino"), Wild("axanthic"), Wild("anaconda"), Wild("arctic") >>,
      << Hom("albino"), Hom("axanthic") >>,
      << Hom("axanthic"), Hom("albino") >>,
      << Hom("albino"), Het("axanthic") >>,
      << Hom("albino"), Hom("axanthic"), Het("anaconda") >>,
      << Het("albino"), Het("axanthic"), Wild("anaconda") >>,
      << Het("albino"), Het("anaconda") >>,
      << Het("anaconda"), Hom("albino") >>,
      << Hom("albino"), Hom("arctic"), Het("axanthic") >>,
      << Hom("albino"), Hom("arctic"), Hom("axanthic") >>,
      << Hom("albino"), Hom("axanthic"), Wild("arctic") >>,
      << Hom("albino"), Hom("axanthic"), Het("arctic") >>,
      << Hom("albino"), Hom("axanthic"), Het("anaconda"), Het("arctic"),
         Het("lemon_ghost") >>,
      << Hom("anaconda"), Het("arctic"), Het("axanthic") >>,
      << Het("lemon_ghost"), Het("toffee"), Entry("albino", <<"+", "albino">>) >>,
      << Hom(UnknownKey), Hom("albino"), Het(UnknownKey \o "2") >>,
      << Het("albino"), Entry("anaconda", <<"anaconda">>) >>,
      << MissingEntry("axanthic"), Hom("albino") >> }

Saved(genotype, species, sex, clutches) ==
    [id |-> 1, species |-> species, sex |-> sex, genotype |-> genotype,
     origin |-> "wild", parentIds |-> <<>>, birthDate |-> 1,
     stats |-> [health |-> 100, fertility |-> 1, clutchesProduced |-> clutches]]

\* The saved snakes: 'prairie' is the species buySnake() asks for, which the
\* catalog does not have
SavedSnakes ==
    { Saved(g, "western", "male", 0) : g \in OneKeyGenotypes }
    \cup { Saved(g, s, x, c) : g \in ManyKeyGenotypes,
                               s \in SpeciesIds \cup {"prairie"},
                               x \in {"male", "female"}, c \in {0, 1} }

\* A method that resolves the phenotype first throws where getPhenotype() does
Thrown(op) == [NoMethodCall EXCEPT !.op = op, !.threw = TRUE, !.seen = lastCall.seen]
Returned(op) == [NoMethodCall EXCEPT !.op = op, !.seen = lastCall.seen]

\* Snake.deserialize(data, morphData)
Restore(data) ==
    /\ subject = Nobody
    /\ subject' = Deserialize(data)
    /\ lastCall' = NoMethodCall
    /\ UNCHANGED <<morphData, rngVars, gameVars, worldVars>>

\* subject.getPhenotype()
CallGetPhenotype ==
    /\ subject # Nobody
    /\ lastCall.seen.calls < MaxPhenotypeCalls
    /\ IF PhenotypeThrows(subject)
       THEN /\ lastCall' = Thrown("getPhenotype")
            /\ UNCHANGED subject
       ELSE \E list \in {GetPhenotype(subject)} :
            /\ lastCall' = [Returned("getPhenotype") EXCEPT
                               !.list = list,
                               !.seen = [calls |-> @.calls + 1, list |-> list]]
            /\ subject' = Memoized(subject)
    /\ UNCHANGED <<morphData, rngVars, gameVars, worldVars>>

\* subject.getHetGenes()
CallGetHetGenes ==
    /\ subject # Nobody
    /\ IF PhenotypeThrows(subject)
       THEN /\ lastCall' = Thrown("getHetGenes")
            /\ UNCHANGED subject
       ELSE /\ lastCall' = [Returned("getHetGenes") EXCEPT
                               !.list = GetHetGenes(subject)]
            /\ subject' = Memoized(subject)
    /\ UNCHANGED <<morphData, rngVars, gameVars, worldVars>>

\* subject.getDisplayName()
CallGetDisplayName ==
    /\ subject # Nobody
    /\ IF PhenotypeThrows(subject)
       THEN /\ lastCall' = Thrown("getDisplayName")
            /\ UNCHANGED subject
       ELSE /\ lastCall' = [Returned("getDisplayName") EXCEPT
                               !.text = GetDisplayName(subject)]
            /\ subject' = Memoized(subject)
    /\ UNCHANGED <<morphData, rngVars, gameVars, worldVars>>

\* subject.calculatePrice()
CallCalculatePrice ==
    /\ subject # Nobody
    /\ IF PhenotypeThrows(subject)
       THEN /\ lastCall' = Thrown("calculatePrice")
            /\ UNCHANGED subject
       ELSE /\ lastCall' = [Returned("calculatePrice") EXCEPT
                               !.number = CalculatePrice(subject)]
            /\ subject' = Memoized(subject)
    /\ UNCHANGED <<morphData, rngVars, gameVars, worldVars>>

\* subject.getRarityTier()
CallGetRarityTier ==
    /\ subject # Nobody
    /\ IF PhenotypeThrows(subject)
       THEN /\ lastCall' = Thrown("getRarityTier")
            /\ UNCHANGED subject
       ELSE /\ lastCall' = [Returned("getRarityTier") EXCEPT
                               !.text = GetRarityTier(subject)]
            /\ subject' = Memoized(subject)
    /\ UNCHANGED <<morphData, rngVars, gameVars, worldVars>>

\* subject.serialize()
CallSerialize ==
    /\ subject # Nobody
    /\ lastCall' = [Returned("serialize") EXCEPT !.data = Serialize(subject)]
    /\ UNCHANGED <<subject, morphData, rngVars, gameVars, worldVars>>

\* Snake.deserialize(subject.serialize(), morphData)
Reload ==
    /\ subject # Nobody
    /\ subject' = Deserialize(Serialize(subject))
    /\ lastCall' = [Returned("deserialize") EXCEPT !.data = Serialize(subject)]
    /\ UNCHANGED <<morphData, rngVars, gameVars, worldVars>>

InitSnake ==
    /\ RngIdle
    /\ last = NoCall
    /\ GameNew
    /\ WorldConstructed
    /\ NoSubject

NextSnake ==
    \/ \E data \in SavedSnakes : Restore(data)
    \/ CallGetPhenotype
    \/ CallGetHetGenes
    \/ CallGetDisplayName
    \/ CallCalculatePrice
    \/ CallGetRarityTier
    \/ CallSerialize
    \/ Reload

SpecSnake == InitSnake /\ [][NextSnake]_vars

(* The price and the name of one snake under one of several catalogs *)

InitPrice ==
    /\ RngIdle
    /\ last = NoCall
    /\ GameNew
    /\ WorldConstructed
    /\ subject = Nobody
    /\ lastCall = NoMethodCall
    /\ morphData \in {[comboMorphs |-> c, pricingRules |-> t] :
                         c \in {Catalog, OtherCatalog}, t \in {Rules, OtherRules}}

NextPrice ==
    \/ \E data \in SavedSnakes : Restore(data)
    \/ CallCalculatePrice
    \/ CallGetDisplayName

SpecPrice == InitPrice /\ [][NextPrice]_vars

----------------------------------------------------------------------------
(* Claims about the generator *)

Min(a, b) == IF a <= b THEN a ELSE b
Max(a, b) == IF a >= b THEN a ELSE b

\* The first i calls logged on the two generators are the same calls
SameCalls(i) ==
    \A j \in 1..i : log[1][j].op = log[2][j].op /\ log[1][j].args = log[2][j].args

\* C1: two generators constructed with the same seed return the same value at
\* every step of the same sequence of draw calls, whatever the interleaving;
\* a generator on which no call was made since construction or since reset()
\* is in the state of a freshly constructed generator with its seed, so the
\* values after reset() are those after construction.
C1_SameSeedSameSequence ==
    /\ rng[1].seed = rng[2].seed
    /\ \A i \in 1..Min(Len(log[1]), Len(log[2])) :
           SameCalls(i) => log[1][i].val = log[2][i].val
    /\ (Len(log[1]) = Len(log[2]) /\ SameCalls(Len(log[1]))) => rng[1] = rng[2]
    /\ \A g \in Generators : log[g] = <<>> => rng[g] = SeededRandom(rng[g].seed)

\* Generator 2 was reset after draws, generator 1 never was, and both then
\* served the same two calls
C1_Witness ==
    /\ resets[2] /\ ~resets[1]
    /\ Len(log[1]) >= 2 /\ Len(log[2]) >= 2 /\ SameCalls(2)
    /\ log[1][1].op = "next" /\ log[1][2].op = "int"

C3_WitnessMin ==
    last.op = "int" /\ last.args[1] < last.args[2] /\ last.val = last.args[1]

Count(seq, e) == Cardinality({k \in 1..Len(seq) : seq[k] = e})

IsPermutation(a, b) ==
    /\ Len(a) = Len(b)
    /\ \A k \in 1..Len(b) : Count(a, b[k]) = Count(b, b[k])

\* The generator after k more next() calls
RECURSIVE Advance(_, _)
Advance(g, k) ==
    IF k = 0 THEN g
    ELSE CHOOSE r \in { Advance(h, k - 1) : h \in {RngNext(g).rng} } : TRUE

\* C4: shuffle(list) returns a permutation of the list, leaves the caller's
\* list as it was, and draws one index j = int(0, i) for each i from
\* length-1 down to 1 and nothing else.
C4_ShufflePermutes ==
    last.op = "shuffle" =>
        LET input == last.args[1]
            len == Len(input)
        IN  /\ IsPermutation(last.val, input)
            /\ inputList = input
            /\ Len(last.swaps) = Max(len - 1, 0)
            /\ last.n = Len(last.swaps)
            /\ last.post = Advance(last.pre, Len(last.swaps))
            /\ \A k \in 1..Len(last.swaps) :
                   /\ last.swaps[k][1] = len - k
                   /\ last.swaps[k][2] =
                          RngInt(Advance(last.pre, k - 1), 0, len - k).val

\* shuffle() moved elements of a list of three or more
C4_Witness ==
    last.op = "shuffle" /\ Len(last.args[1]) >= 3 /\ last.val # last.args[1]

----------------------------------------------------------------------------
(* Claims about breeding *)

Range(f) == {f[k] : k \in DOMAIN f}

\* C5: breed called with two parents of different species fails with the
\* species-mismatch error and returns no offspring, and it fails before any
\* draw: the generator and both parents are as they were before the call
\* (and the game shows the error and keeps its collection).
C5_SpeciesMismatchFailsFirst ==
    (lastBreed.called /\ lastBreed.parent1.species # lastBreed.parent2.species) =>
        /\ ~lastBreed.result.ok
        /\ lastBreed.result.error = CrossbreedError
        /\ lastBreed.result.offspring = <<>>
        /\ lastBreed.result.rng = lastBreed.rng
        /\ breedRng = lastBreed.rng
        /\ snakes[lastBreed.p1] = lastBreed.parent1
        /\ snakes[lastBreed.p2] = lastBreed.parent2
        /\ lastBreed.alert = CrossbreedError

C5_Witness ==
    /\ lastBreed.called
    /\ lastBreed.parent1.species = "western"
    /\ lastBreed.parent2.species = "eastern"
    /\ lastBreed.parent1.origin = "bred"

\* C6: for parents of the same species, whatever the state of the generator,
\* the clutch breed returns has a length between the species' clutchSize.min
\* and clutchSize.max, both included.
C6_ClutchWithinRange ==
    (lastBreed.called /\ lastBreed.parent1.species = lastBreed.parent2.species) =>
        /\ lastBreed.result.ok
        /\ Len(lastBreed.result.offspring) >=
              Species[lastBreed.parent1.species].clutchSize.min
        /\ Len(lastBreed.result.offspring) <=
              Species[lastBreed.parent1.species].clutchSize.max

C6_Witness ==
    /\ lastBreed.called
    /\ lastBreed.parent1.species = "western"
    /\ lastBreed.parent2.species = "western"
    /\ Len(lastBreed.result.offspring) = 8

\* C7: every offspring breed returns has exactly the gene keys of parent1's
\* genotype, and for each of them the pair [x, y] with x one of parent1's
\* alleles of that gene and y one of parent2's; no allele comes from elsewhere.
C7_OffspringAllelesFromParents ==
    (lastBreed.called /\ lastBreed.result.ok) =>
        \A c \in 1..Len(lastBreed.result.offspring) :
            LET child == lastBreed.result.offspring[c]
            IN  /\ Range(Keys(child.genotype)) = Range(Keys(lastBreed.parent1.genotype))
                /\ Len(child.genotype) = Len(lastBreed.parent1.genotype)
                /\ \A k \in 1..Len(child.genotype) :
                      LET entry == child.genotype[k]
                      IN  /\ Len(entry.alleles) = 2
                          /\ entry.alleles[1] \in
                                Range(Alleles(lastBreed.parent1.genotype, entry.gene))
                          /\ entry.alleles[2] \in
                                Range(Alleles(lastBreed.parent2.genotype, entry.gene))

\* A clutch where parent1 has only wild alleles of arctic and parent2 only
\* mutant ones
C7_Witness ==
    /\ lastBreed.called
    /\ lastBreed.result.ok
    /\ Alleles(lastBreed.parent1.genotype, "arctic") = <<"+", "+">>
    /\ Alleles(lastBreed.parent2.genotype, "arctic") = <<"arctic", "arctic">>
    /\ \E c \in 1..Len(lastBreed.result.offspring) :
          Alleles(lastBreed.result.offspring[c].genotype, "albino") = <<"+", "albino">>

WellFormed(genotype) ==
    /\ \A j, k \in 1..Len(genotype) : genotype[j].gene = genotype[k].gene => j = k
    /\ \A k \in 1..Len(genotype) :
          /\ Len(genotype[k].alleles) = 2
          /\ \A a \in 1..2 :
                genotype[k].alleles[a] \in WildMarkers \cup {genotype[k].gene}

GenotypesKept ==
    \A id \in DOMAIN snakes :
        id \in DOMAIN snakes' /\ snakes'[id].genotype = snakes[id].genotype

\* C8: in every reachable state every creature's genotype, in the collection
\* or in the clutch just returned, maps each gene key to exactly two alleles,
\* each a wild marker or the gene's own id; and no step changes the genotype
\* of a creature that exists.
C8_GenotypesWellFormed ==
    /\ [](/\ \A id \in DOMAIN snakes : WellFormed(snakes[id].genotype)
          /\ \A c \in 1..Len(lastBreed.result.offspring) :
                WellFormed(lastBreed.result.offspring[c].genotype))
    /\ [][GenotypesKept]_vars

\* A creature bred from a bred creature
C8_Witness ==
    \E id \in DOMAIN snakes :
        /\ snakes[id].origin = "bred"
        /\ \E parent \in Range(snakes[id].parentIds) : snakes[parent].origin = "bred"

RECURSIVE Total(_, _)
Total(f, S) ==
    IF S = {} THEN 0
    ELSE LET x == CHOOSE x \in S : TRUE IN f[x] + Total(f, S \ {x})

\* C9: for the two parents selected and every gene in both their genotypes,
\* the preview lists outcomes, one per distinct pair among the 4 combinations
\* of an allele of parent1 with an allele of parent2, whose probabilities are
\* k * 0.25 with k in 1..4 and sum to 1.0; and showing the preview draws from
\* no generator and creates no creature.
C9_PunnettComplete ==
    /\ [](predictions.shown =>
            LET parent1 == snakes[breedingParents.p1]
                parent2 == snakes[breedingParents.p2]
                table == predictions.table
            IN  /\ {table[k].gene : k \in 1..Len(table)} =
                      Range(Keys(parent1.genotype)) \cap Range(Keys(parent2.genotype))
                /\ \A k \in 1..Len(table) :
                      LET outcomes == table[k].outcomes
                          a == Alleles(parent1.genotype, table[k].gene)
                          b == Alleles(parent2.genotype, table[k].gene)
                      IN  /\ DOMAIN outcomes = { {x, y} : x \in Range(a), y \in Range(b) }
                          /\ \A pair \in DOMAIN outcomes : outcomes[pair] \in 1..4
                          /\ Total(outcomes, DOMAIN outcomes) = 4)
    /\ [][(predictions'.shown /\ breedingParents' # breedingParents) =>
            /\ breedRng' = breedRng
            /\ rng' = rng
            /\ nextId' = nextId
            /\ collection' = collection
            /\ DOMAIN snakes' = DOMAIN snakes
            /\ \A id \in DOMAIN snakes : snakes'[id].genotype = snakes[id].genotype]_vars

\* A preview for a pair of different species, with a certain outcome, a
\* half-and-half one and a gene only one parent has left out
C9_Witness ==
    /\ predictions.shown
    /\ snakes[breedingParents.p1].species # snakes[breedingParents.p2].species
    /\ Len(predictions.table) = 4
    /\ \E k \in 1..Len(predictions.table) :
          \E pair \in DOMAIN predictions.table[k].outcomes :
              predictions.table[k].outcomes[pair] = 4
    /\ \E k \in 1..Len(predictions.table) :
          \E pair \in DOMAIN predictions.table[k].outcomes :
              predictions.table[k].outcomes[pair] = 2

----------------------------------------------------------------------------
(* Claims about wild encounters *)

----------------------------------------------------------------------------
(* Claims about the snake's phenotype, name and price *)

\* getPhenotype() has returned a list for the snake under observation
PhenotypeReturned == lastCall.op = "getPhenotype" /\ ~lastCall.threw

\* The entries of the snake's genotype whose gene has the inheritance mode,
\* and whose value is a pair of alleles
PairsOf(mode) ==
    {k \in 1..Len(subject.genotype) :
        /\ ~Missing(subject.genotype[k])
        /\ Len(subject.genotype[k].alleles) = 2
        /\ GeneOf(subject.genotype[k].gene).inheritance = mode}

\* C11: for a recessive gene, getPhenotype lists the gene id if and only if
\* both allele slots equal the gene's own id; a pair with one copy or none is
\* not listed.
C11_RecessiveNeedsBothCopies ==
    PhenotypeReturned =>
        \A k \in PairsOf("recessive") :
            LET e == subject.genotype[k]
            IN  Includes(lastCall.list, e.gene) <=> e.alleles = <<e.gene, e.gene>>

\* getPhenotype has listed a homozygous recessive gene
C11_Witness ==
    /\ PhenotypeReturned
    /\ \E k \in PairsOf("recessive") :
          /\ subject.genotype[k].alleles = <<subject.genotype[k].gene,
                                             subject.genotype[k].gene>>
          /\ Includes(lastCall.list, subject.genotype[k].gene)

\* The number of slots of a pair that are neither '+' nor 'wild'
NonWild(pair) == Cardinality({i \in 1..2 : pair[i] # "+" /\ pair[i] # "wild"})

\* C12: for an incompleteDominant gene with n slots that are neither '+' nor
\* 'wild', getPhenotype lists the gene id when n = 1, the gene's superForm id
\* and not the gene id when n = 2, and nothing for the gene when n = 0.
C12_IncompleteDominantByCount ==
    PhenotypeReturned =>
        \A k \in PairsOf("incompleteDominant") :
            LET e == subject.genotype[k]
                superForm == GeneOf(e.gene).superForm
                n == NonWild(e.alleles)
            IN  /\ n = 1 => Includes(lastCall.list, e.gene)
                /\ n = 2 => /\ Includes(lastCall.list, superForm)
                            /\ ~Includes(lastCall.list, e.gene)
                /\ n = 0 => /\ ~Includes(lastCall.list, e.gene)
                            /\ ~Includes(lastCall.list, superForm)

\* getPhenotype has listed the super form of a gene with two mutant alleles
C12_Witness ==
    /\ PhenotypeReturned
    /\ \E k \in PairsOf("incompleteDominant") :
          /\ NonWild(subject.genotype[k].alleles) = 2
          /\ Includes(lastCall.list, GeneOf(subject.genotype[k].gene).superForm)

\* C13: for a dominant or a polygenic gene, getPhenotype lists the gene id
\* if and only if at least one slot is neither '+' nor 'wild'; the condition
\* is the same for the two modes, so they agree on every pair.
C13_DominantAndPolygenicOnAnyCopy ==
    PhenotypeReturned =>
        \A k \in PairsOf("dominant") \cup PairsOf("polygenic") :
            LET e == subject.genotype[k]
            IN  Includes(lastCall.list, e.gene) <=> NonWild(e.alleles) >= 1

\* getPhenotype has listed a polygenic gene that has one mutant allele,
\* beside a dominant gene that has one
C13_Witness ==
    /\ PhenotypeReturned
    /\ \E k \in PairsOf("polygenic") :
          /\ NonWild(subject.genotype[k].alleles) = 1
          /\ Includes(lastCall.list, subject.genotype[k].gene)
    /\ \E k \in PairsOf("dominant") :
          /\ NonWild(subject.genotype[k].alleles) = 1
          /\ Includes(lastCall.list, subject.genotype[k].gene)

\* The place in the catalog of the gene a trait belongs to: the trait is the
\* gene's id or its super form
CatalogPlace(trait) ==
    CHOOSE k \in 1..Len(Genes) : trait \in {Genes[k].id, Genes[k].superForm}

\* C14: the trait ids of the resolved phenotype stand in the catalog's gene
\* order, whatever the order in which the keys of the genotype were inserted
\* (so two genotypes with the same mapping resolve to the same list).
C14_PhenotypeInCatalogOrder ==
    PhenotypeReturned =>
        \A i, j \in 1..Len(lastCall.list) :
            i < j => CatalogPlace(lastCall.list[i]) <= CatalogPlace(lastCall.list[j])

\* The genotype with every key removed that is not a gene id of the catalog
Recognized(genotype) == SelectSeq(genotype, LAMBDA e : e.gene \in GeneIds)

\* The keys of the snake's genotype that the catalog does not have
Unrecognized == {k \in 1..Len(subject.genotype) : subject.genotype[k].gene \notin GeneIds}

\* C15: a key that is not a gene id of the catalog contributes nothing and
\* raises no error: getPhenotype behaves as on the genotype without the
\* unrecognized keys, returning the same list (and throwing only where the
\* value of a recognized key makes it throw).
C15_UnrecognizedKeysSkipped ==
    lastCall.op = "getPhenotype" =>
        LET known == Recognized(subject.genotype)
        IN  /\ lastCall.threw <=> \E k \in 1..Len(known) : Missing(known[k])
            /\ ~lastCall.threw =>
                  /\ lastCall.list = ExpressedFrom(known, 1)
                  /\ \A k \in Unrecognized :
                        ~Includes(lastCall.list, subject.genotype[k].gene)

\* getPhenotype has returned for a genotype that has a recognized trait and
\* an unrecognized key with mutant alleles
C15_Witness ==
    /\ PhenotypeReturned
    /\ lastCall.list # <<>>
    /\ \E k \in Unrecognized : subject.genotype[k].alleles # <<>>

\* The entries of the snake's genotype with a gene of the catalog whose value
\* is not a pair: no value, one allele, three alleles or more
Malformed ==
    {k \in 1..Len(subject.genotype) :
        /\ subject.genotype[k].gene \in GeneIds
        /\ \/ Missing(subject.genotype[k])
           \/ Len(subject.genotype[k].alleles) # 2}

\* C16: a gene whose allele value is not a pair of two values is treated as
\* absent, in every inheritance mode: getPhenotype does not throw and lists
\* no trait for the gene.
C16_MalformedValueIsAbsent ==
    (lastCall.op = "getPhenotype" /\ Malformed # {}) =>
        /\ ~lastCall.threw
        /\ \A k \in Malformed :
              LET gene == GeneOf(subject.genotype[k].gene)
              IN  /\ ~Includes(lastCall.list, gene.id)
                  /\ ~Includes(lastCall.list, gene.superForm)

\* C17: every getPhenotype call that returns, whatever calls of getPhenotype,
\* getHetGenes, getDisplayName, calculatePrice, getRarityTier and serialize
\* came before it, returns the list the earlier getPhenotype calls returned,
\* and that list is the phenotype computed afresh from the snake's genotype.
C17_MemoizedPhenotypeNeverStale ==
    [][(lastCall'.op = "getPhenotype" /\ ~lastCall'.threw) =>
          /\ lastCall'.list = ExpressedFrom(subject'.genotype, 1)
          /\ lastCall.seen.calls > 0 => lastCall'.list = lastCall.seen.list
          /\ subject'.genotype = subject.genotype]_vars

\* getPhenotype has returned two traits for the second time
C17_Witness ==
    /\ PhenotypeReturned
    /\ lastCall.seen.calls = 2
    /\ Len(lastCall.list) = 2

\* getHetGenes() has returned a list for the snake under observation
HetGenesReturned == lastCall.op = "getHetGenes" /\ ~lastCall.threw

\* The number of slots of an entry's value that hold the gene's own id
OwnCopies(e) == Cardinality({i \in 1..Len(e.alleles) : e.alleles[i] = e.gene})

\* C18: getHetGenes reports a gene (by its name) if and only if the gene is
\* recessive, exactly one slot of its value equals the gene's id and the gene
\* is not in the phenotype; no gene is in the phenotype and reported as well.
C18_CarrierIffOneRecessiveCopy ==
    HetGenesReturned =>
        LET phenotype == ExpressedFrom(subject.genotype, 1)
            carried == {k \in 1..Len(subject.genotype) :
                          /\ subject.genotype[k].gene \in GeneIds
                          /\ GeneOf(subject.genotype[k].gene).inheritance = "recessive"
                          /\ OwnCopies(subject.genotype[k]) = 1
                          /\ ~Includes(phenotype, subject.genotype[k].gene)}
        IN  /\ \A k \in 1..Len(subject.genotype) :
                  subject.genotype[k].gene \in GeneIds =>
                      /\ Includes(lastCall.list, GeneOf(subject.genotype[k].gene).name)
                            <=> k \in carried
                      /\ ~(/\ Includes(phenotype, subject.genotype[k].gene)
                            /\ Includes(lastCall.list,
                                        GeneOf(subject.genotype[k].gene).name))
            /\ Len(lastCall.list) = Cardinality(carried)

\* getHetGenes has reported one recessive gene of a snake that expresses
\* another one
C18_Witness ==
    /\ HetGenesReturned
    /\ Len(lastCall.list) = 1
    /\ \E k \in PairsOf("recessive") :
          Includes(subject.phenotype.list, subject.genotype[k].gene)

\* getDisplayName() has returned a name for the snake under observation
DisplayNameReturned == lastCall.op = "getDisplayName" /\ ~lastCall.threw

\* The display name of a trait: the name of the gene with that id, the id
\* itself for a trait that is no gene of the catalog (a super form)
TraitName(trait) ==
    IF \E k \in 1..Len(Genes) : Genes[k].id = trait
    THEN Genes[CHOOSE k \in 1..Len(Genes) : Genes[k].id = trait].name
    ELSE trait

\* The names of the first n traits, each two separated by one space
RECURSIVE Spaced(_, _)
Spaced(traits, n) ==
    IF n = 0 THEN ""
    ELSE IF n = 1 THEN TraitName(traits[1])
    ELSE Spaced(traits, n - 1) \o " " \o TraitName(traits[n])

\* C19: getDisplayName returns 'Normal' for an empty phenotype, else the name
\* of the first combo morph in catalog order whose requires set is contained
\* in the phenotype, else the display names of the traits joined by single
\* spaces; a snake homozygous for albino and axanthic is named 'Snow'.
C19_DisplayNameByCombo ==
    DisplayNameReturned =>
        LET phenotype == ExpressedFrom(subject.genotype, 1)
            traits == {phenotype[i] : i \in 1..Len(phenotype)}
            met == {k \in 1..Len(ComboMorphs) : ComboMorphs[k].requires \subseteq traits}
        IN  /\ phenotype = <<>> => lastCall.text = "Normal"
            /\ (phenotype # <<>> /\ met # {}) =>
                  \E k \in met : /\ \A j \in met : k <= j
                                  /\ lastCall.text = ComboMorphs[k].name
            /\ (phenotype # <<>> /\ met = {}) =>
                  lastCall.text = Spaced(phenotype, Len(phenotype))
            /\ (\A g \in {"albino", "axanthic"} :
                    \E k \in 1..Len(subject.genotype) :
                        subject.genotype[k] = [gene |-> g, alleles |-> <<g, g>>])
                  => lastCall.text = "Snow"

\* getDisplayName has named a snake 'Snow' that meets the requirements of a
\* later combo morph as well
C19_Witness ==
    /\ DisplayNameReturned
    /\ lastCall.text = "Snow"
    /\ Len(subject.phenotype.list) = 3

\* calculatePrice() has returned a price for the snake under observation
PriceReturned == lastCall.op = "calculatePrice" /\ ~lastCall.threw

\* The rarity multiplier of a trait: the rule for the rarity of the gene with
\* that id, 1 for a trait that is no gene of the catalog or has no rule
RarityMultiplier(trait) ==
    IF \E k \in 1..Len(Genes) : Genes[k].id = trait
    THEN LET rarity == Genes[CHOOSE k \in 1..Len(Genes) : Genes[k].id = trait].rarity
         IN  IF rarity \in DOMAIN PricingRules.rarityMultipliers
             THEN PricingRules.rarityMultipliers[rarity] ELSE <<1, 1>>
    ELSE <<1, 1>>

\* The product of the rarity multipliers of the first n traits, as a fraction
RECURSIVE RarityProduct(_, _)
RarityProduct(traits, n) ==
    IF n = 0 THEN <<1, 1>>
    ELSE << RarityProduct(traits, n - 1)[1] * RarityMultiplier(traits[n])[1],
            RarityProduct(traits, n - 1)[2] * RarityMultiplier(traits[n])[2] >>

\* The price the six steps give the snake under observation, before rounding
SixSteps ==
    LET phenotype == ExpressedFrom(subject.genotype, 1)
        traits == {phenotype[i] : i \in 1..Len(phenotype)}
        met == {k \in 1..Len(ComboMorphs) : ComboMorphs[k].requires \subseteq traits}
        hetCount == Cardinality({k \in 1..Len(subject.genotype) :
                        /\ subject.genotype[k].gene \in GeneIds
                        /\ GeneOf(subject.genotype[k].gene).inheritance = "recessive"
                        /\ OwnCopies(subject.genotype[k]) = 1
                        /\ subject.genotype[k].gene \notin traits})
        p0 == Amount(IF subject.species \in DOMAIN Species
                     THEN Species[subject.species].basePrice ELSE 100)
        p1 == Times(p0, IF subject.sex \in DOMAIN PricingRules.genderMultiplier
                        THEN PricingRules.genderMultiplier[subject.sex]
                        ELSE <<1, 1>>)
        p2 == Times(p1, RarityProduct(phenotype, Len(phenotype)))
        floor == IF met = {} THEN 0
                 ELSE ComboMorphs[CHOOSE k \in met : \A j \in met : k <= j].basePrice
        p3 == IF p2.ip >= floor THEN p2 ELSE Amount(floor)
        p4 == Times(p3, << PricingRules.hetGeneBonus[2]
                             + hetCount * PricingRules.hetGeneBonus[1],
                           PricingRules.hetGeneBonus[2] >>)
        p5 == IF subject.stats.clutchesProduced > 0
              THEN Times(p4, PricingRules.provenBreederBonus) ELSE p4
    IN  Times(p5, IF subject.species \in DOMAIN PricingRules.speciesMultipliers
                  THEN PricingRules.speciesMultipliers[subject.species]
                  ELSE <<1, 1>>)

TraitsOf(genotype) ==
    {ExpressedFrom(genotype, 1)[i] : i \in 1..Len(ExpressedFrom(genotype, 1))}
Met == {k \in 1..Len(ComboMorphs) : ComboMorphs[k].requires \subseteq TraitsOf(subject.genotype)}

\* The running price of the snake under observation when the combo step
\* begins: base value, sex multiplier, rarity multipliers
RunningPrice ==
    LET phenotype == ExpressedFrom(subject.genotype, 1)
        p0 == Amount(IF subject.species \in DOMAIN Species
                     THEN Species[subject.species].basePrice ELSE 100)
        p1 == Times(p0, IF subject.sex \in DOMAIN PricingRules.genderMultiplier
                        THEN PricingRules.genderMultiplier[subject.sex]
                        ELSE <<1, 1>>)
    IN  Times(p1, RarityProduct(phenotype, Len(phenotype)))

\* The steps after the combo step and the rounding, applied to a price
Remaining(price) ==
    LET hetCount == Cardinality({k \in 1..Len(subject.genotype) :
                        /\ subject.genotype[k].gene \in GeneIds
                        /\ GeneOf(subject.genotype[k].gene).inheritance = "recessive"
                        /\ OwnCopies(subject.genotype[k]) = 1
                        /\ subject.genotype[k].gene \notin TraitsOf(subject.genotype)})
        p4 == Times(price, << PricingRules.hetGeneBonus[2]
                                + hetCount * PricingRules.hetGeneBonus[1],
                              PricingRules.hetGeneBonus[2] >>)
        p5 == IF subject.stats.clutchesProduced > 0
              THEN Times(p4, PricingRules.provenBreederBonus) ELSE p4
        p6 == Times(p5, IF subject.species \in DOMAIN PricingRules.speciesMultipliers
                        THEN PricingRules.speciesMultipliers[subject.species]
                        ELSE <<1, 1>>)
    IN  p6.ip + (IF 2 * p6.num >= p6.den THEN 1 ELSE 0)

RarityOf(trait) == Genes[CatalogPlace(trait)].rarity

\* The second genotype is the first one but for the value of one key, and
\* expresses the traits of the first and one more, of a rarity at least that
\* of every trait of the first
OneTraitMore(first, second) ==
    /\ Len(first) = Len(second)
    /\ \A k \in 1..Len(first) : first[k].gene = second[k].gene
    /\ Cardinality({k \in 1..Len(first) : first[k] # second[k]}) = 1
    /\ \A k \in 1..Len(second) : ~Missing(first[k]) /\ ~Missing(second[k])
    /\ TraitsOf(first) \subseteq TraitsOf(second)
    /\ Cardinality(TraitsOf(second) \ TraitsOf(first)) = 1
    /\ \A t \in TraitsOf(second) \ TraitsOf(first) :
          \A u \in TraitsOf(first) : RarityOf(t) >= RarityOf(u)

\* C22: of two snakes equal in species, sex and stats, the second with the
\* genotype of the first but for one trait more that is at least as rare as
\* the traits of the first, the second has a price at least that of the
\* first, under every catalog of combo morphs.
C22_RarerTraitNeverLowersPrice ==
    PriceReturned =>
        \A data \in SavedSnakes :
            (/\ data.species = subject.species
             /\ data.sex = subject.sex
             /\ data.stats = subject.stats
             /\ OneTraitMore(data.genotype, subject.genotype))
            => CalculatePrice(Deserialize(data)) <= lastCall.number

\* The five tiers in ascending order, and the prices at which the next begins
Tiers == <<"common", "uncommon", "rare", "very-rare", "legendary">>
TierThresholds == <<200, 500, 1000, 3000>>

\* getRarityTier() has returned a tier for the snake under observation
TierReturned == lastCall.op = "getRarityTier" /\ ~lastCall.threw

SavedFields ==
    {"id", "species", "sex", "genotype", "origin", "parentIds", "birthDate", "stats"}

\* C24: Snake.deserialize(s.serialize()) is a snake with the id, species,
\* sex, genotype, origin, parentIds, birthDate and stats of s, on which
\* getPhenotype and calculatePrice give what they give on s (or throw as they
\* do on s); the serialized form has these eight fields and nothing else,
\* neither phenotype nor price.
C24_SerializeRoundTrip ==
    [][lastCall'.op = "deserialize" =>
          /\ DOMAIN lastCall'.data = SavedFields
          /\ \A f \in SavedFields : subject'[f] = subject[f]
          /\ PhenotypeThrows(subject') <=> PhenotypeThrows(subject)
          /\ ~PhenotypeThrows(subject) =>
                /\ GetPhenotype(subject') = GetPhenotype(subject)
                /\ CalculatePrice(subject') = CalculatePrice(subject)]_vars

\* A proven snake with a resolved phenotype of two traits has been
\* serialized and restored
C24_Witness ==
    /\ lastCall.op = "deserialize"
    /\ subject.stats.clutchesProduced > 0
    /\ lastCall.seen.calls > 0
    /\ Len(lastCall.seen.list) = 2
    /\ ~subject.phenotype.cached

\* The seeds World.init() gives its snake spots, which handleSnakeDiscovery
\* hands to the generator of wild snakes
WorldSeeds ==
    LET spots == CreateSnakeSpotsOn(Reset(SeededRandom(WORLD_SEED)), <<>>).spots
    IN  {spots[i].seed : i \in 1..Len(spots)}

\* C25: a generator constructed with a seed in 1..LcgM-1 has, after any
\* draws, a state in 1..LcgM-1, never 0, and the product 48271 * state that
\* the next draw forms is below 2^53 (its quotient by LcgM is below 2^22 - 1);
\* every seed the world hands to the generator of wild snakes is such a seed.
C25_StateNeverZero ==
    /\ \A g \in Generators :
          rng[g].seed \in 1..(LcgM - 1) =>
              /\ rng[g].current \in 1..(LcgM - 1)
              /\ Product(rng[g].current, LcgA).q < 4194304 - 1
    /\ \A seed \in WorldSeeds : seed \in 1..(LcgM - 1)

\* A generator has drawn from the state whose successor is 1, the lowest
\* state there is
C25_Witness ==
    /\ last.op # "new"
    /\ last.pre.current = LowEdgeState
    /\ \E g \in Generators : rng[g].current = 1 /\ Len(log[g]) > 0

\* C26: in every state of the game, also right after init() merged a saved
\* game, every element of the collection is a Snake instance, on which
\* getDisplayName, getSpeciesName, calculatePrice, getRarityTier and
\* serialize can be called.
C26_CollectionHoldsSnakes ==
    \A k \in 1..Len(collection) : IsSnake(snakes[collection[k]])

\* The traits a genotype over the gene catalog can express
ExpressibleTraits ==
    (GeneIds \cup {Genes[k].superForm : k \in 1..Len(Genes)}) \ {""}

\* A saved snake is shown under the name of combo k
NamedAfter(k) ==
    \E data \in SavedSnakes :
        /\ ~PhenotypeThrows(Deserialize(data))
        /\ GetDisplayName(Deserialize(data)) = ComboMorphs[k].name

\* The combo that names the snake under observation is the combo whose
\* basePrice its price was raised to
NameAndPriceBySameCombo ==
    (PriceReturned /\ Met # {}) =>
        \E k \in Met :
            /\ GetDisplayName(subject) = ComboMorphs[k].name
            /\ lastCall.number =
                  (IF RunningPrice.ip >= ComboMorphs[k].basePrice
                   THEN Remaining(RunningPrice)
                   ELSE Remaining(Amount(ComboMorphs[k].basePrice)))

\* C27: every combo morph of the catalog is the display name of some snake,
\* also a combo listed after one that requires a subset of its traits (Yeti
\* after Snow); and the combo that names a snake is the combo whose basePrice
\* its price uses.
C27_EveryComboIsADisplayName ==
    /\ \A k \in 1..Len(ComboMorphs) :
           ComboMorphs[k].requires \subseteq ExpressibleTraits => NamedAfter(k)
    /\ NameAndPriceBySameCombo

\* Base value times sex multiplier of the snake under observation
GenderedBase ==
    Times(Amount(IF subject.species \in DOMAIN Species
                 THEN Species[subject.species].basePrice ELSE 100),
          IF subject.sex \in DOMAIN PricingRules.genderMultiplier
          THEN PricingRules.genderMultiplier[subject.sex] ELSE <<1, 1>>)

\* One factor for each of the first n genes of the catalog: the multiplier of
\* its rarity where the snake under observation shows the gene's own id and
\* the rule table has that rarity, 1 otherwise
RECURSIVE OncePerGene(_)
OncePerGene(n) ==
    IF n = 0 THEN <<1, 1>>
    ELSE IF /\ Genes[n].id \in TraitsOf(subject.genotype)
            /\ Genes[n].rarity \in DOMAIN PricingRules.rarityMultipliers
    THEN << OncePerGene(n - 1)[1] * PricingRules.rarityMultipliers[Genes[n].rarity][1],
            OncePerGene(n - 1)[2] * PricingRules.rarityMultipliers[Genes[n].rarity][2] >>
    ELSE OncePerGene(n - 1)

\* The price that follows from a running price: the floor of the first combo
\* met, then the remaining steps
Finished(price) ==
    IF Met = {} THEN Remaining(price)
    ELSE IF price.ip >= ComboMorphs[First(Met)].basePrice THEN Remaining(price)
    ELSE Remaining(Amount(ComboMorphs[First(Met)].basePrice))

CoinCollected(k) ==
    /\ coins'[k].collected
    /\ ~coins[k].collected \/ coins'[k].respawnAt # coins[k].respawnAt

\* What a step does to coin k
CoinStep(k) ==
    /\ CoinCollected(k) =>
          /\ coinCalls' = <<coins[k].value>>
          /\ money' = money + coins[k].value
          /\ ~coins'[k].visible
          /\ coins'[k].respawnAt = now' + coinRespawnTime
          /\ coins[k].collected => now' >= coins[k].respawnAt
    /\ (coins[k].collected /\ now' < coins[k].respawnAt) => coins'[k] = coins[k]
    /\ (coins[k].collected /\ now' # now /\ now' >= coins[k].respawnAt) =>
          \/ ~coins'[k].collected /\ coins'[k].visible
          \/ CoinCollected(k)

\* Coin k is collected and due to come back while the clock is followed
HeldBack(k) ==
    /\ k \in 1..Len(coins)
    /\ coins[k].collected
    /\ coins[k].respawnAt <= MaxClock

\* C29: each collection of a coin calls onCoinCollected once, with the value
\* of the coin, marks the coin collected and hides it; the coin is not
\* collected again before coinRespawnTime has passed; the first update() at
\* or after respawnAt makes it collectable again, so that while frames keep
\* coming no coin stays collected past its respawn time.
C29_CoinCollectedOnceThenRespawns ==
    /\ [][(Len(coins') = Len(coins)) =>
            /\ \A k \in 1..Len(coins) : CoinStep(k)
            /\ (\A k \in 1..Len(coins) : ~CoinCollected(k)) =>
                   (money' = money /\ (now' # now => coinCalls' = <<>>))]_vars
    /\ \A k \in NUM_NEARBY_COINS..(NUM_NEARBY_COINS + MaxCoinsVisited - 1) :
          HeldBack(k) ~> ~HeldBack(k)

\* A coin away from home was collected, came back and has just been
\* collected for the second time
C29_Witness ==
    /\ Len(coins) > NUM_NEARBY_COINS
    /\ coinCalls = <<coins[NUM_NEARBY_COINS + 1].value>>
    /\ coins[NUM_NEARBY_COINS + 1].respawnAt = now + coinRespawnTime
    /\ ~coins[NUM_NEARBY_COINS + 1].visible
    /\ money = 500 + 2 * coins[NUM_NEARBY_COINS + 1].value
    /\ coins[NUM_NEARBY_COINS].respawnAt = 0
    /\ now = coinRespawnTime + coinRespawnTime \div 3

\* A snake is added to the collection only from the spot of the encounter,
\* and only if that spot has not been collected in this session
AddedFromFreshSpot ==
    (snakeSpots # <<>> /\ snakeSpots' # <<>> /\ Len(collection') > Len(collection)) =>
        /\ currentEncounterData # 0
        /\ ~snakeSpots[currentEncounterData].collected
        /\ snakeSpots'[currentEncounterData].collected
        /\ Len(collection') = Len(collection) + 1

\* The spot handed to handleSnakeDiscovery has not been collected
FoundOnlyUncollected ==
    encounters' > encounters =>
        /\ currentEncounterData' \in 1..Len(snakeSpots)
        /\ ~snakeSpots[currentEncounterData'].collected

\* releaseSnake() changes neither the collection, nor the money, nor a spot
ReleaseKeepsAll ==
    ReleaseSnake =>
        /\ collection' = collection
        /\ money' = money
        /\ \A i \in 1..Len(snakeSpots) : snakeSpots'[i].collected = snakeSpots[i].collected

\* C30: within one session each snake spot of the world adds at most one
\* snake to the collection; a spot marked collected is never again the nearby
\* snake nor handed to onSnakeFound; releaseSnake leaves the collection, the
\* money and the collected flag of every spot as they are.
C30_SpotGivesAtMostOneSnake ==
    [][AddedFromFreshSpot /\ FoundOnlyUncollected /\ ReleaseKeepsAll]_vars

====
